---- MODULE Spec2Model ----
(***************************************************************************)
(* Kaviron Editor: the narrative-graph analyzer and the IndexedDB          *)
(* persistence engine of src/lib/utils.ts.                                 *)
(*                                                                         *)
(* The store is modelled at the granularity of IndexedDB transactions:     *)
(* read-write transactions over overlapping object stores are serialized   *)
(* by the database, and a request error whose event is not                 *)
(* preventDefault()-ed aborts its transaction and rolls back every write   *)
(* the transaction made.  No handler in utils.ts calls preventDefault.     *)
(***************************************************************************)
EXTENDS Integers, Sequences, FiniteSets, TLC

VARIABLES
  episodes,    \* object store "episodes":  id -> episode record
  campaigns,   \* object store "campaigns": id -> campaign record
  snapshots,   \* object store "snapshots": snapshot id -> snapshot record
  now,         \* Date.now(), in milliseconds
  last,        \* the last call that settled, as its caller saw it
  manual,      \* createManualSnapshot between its two transactions
  backup,      \* restoreFromBackup between the saves of its loops
  scenes,      \* the scene graph handed to the analyzer
  brokenLinks, \* findBrokenLinks(scenes) as last computed
  unreachableScenes, \* findUnreachableScenes(scenes) as last computed
  traversal,   \* one call of isSceneReachable(scenes, _) in its while loop
  database,    \* the IndexedDB database: its version and its object stores
  editor,      \* the episode editor: its episode state and its writes under way
  debounced,   \* debouncedSave: its timeout variable and the timers it has set
  campaignEpisodes \* the entries the campaign episode manager shows

storeVars == <<episodes, campaigns, snapshots, now, last, manual, backup>>
graphVars == <<scenes, brokenLinks, unreachableScenes, traversal>>
shellVars == <<database, editor, debounced, campaignEpisodes>>
vars == <<episodes, campaigns, snapshots, now, last, manual, backup,
          scenes, brokenLinks, unreachableScenes, traversal, database,
          editor, debounced, campaignEpisodes>>

----
(* Bounds of the model *)

MaxTime == 2
MaxManual == 1
MaxTimeRetention == 12
MaxLinks == 3
Wait == 2
MaxTimeAutoSave == 5
MaxEntries == 3

----
(* JavaScript values *)

\* lastModified is optional: 0 stands for an absent property
NoStamp == 0

Arr(items) == [isArray |-> TRUE, items |-> items]
NotAnArray == [isArray |-> FALSE, items |-> <<>>]

Choice(text, nextScene) == [text |-> text, nextScene |-> nextScene]

Scene(id, title, text, choices) ==
  [id |-> id, title |-> title, text |-> text, choices |-> choices]

\* one own property of a Record<string, Scene>
Entry(key, scene) == [key |-> key, scene |-> scene]

Episode(id, title, sc) ==
  [id |-> id, title |-> title, author |-> "A", description |-> "D",
   scenes |-> sc, lastModified |-> NoStamp]

\* a JSON value where a number is expected
Num(n) == [isNumber |-> TRUE, value |-> n]
NotANumber == [isNumber |-> FALSE, value |-> 0]

CampaignEpisode(title, description, order) ==
  [episodeId |-> "", title |-> title, description |-> description, order |-> order]

Campaign(id, title, eps) ==
  [id |-> id, title |-> title, author |-> "A", description |-> "D",
   episodes |-> eps, lastModified |-> NoStamp]

\* String.prototype.trim on the strings of the model
Trim(s) == IF s = " " THEN "" ELSE s

\* !s || s.trim() === ""
IsBlank(s) == s = "" \/ Trim(s) = ""

\* the keys of a list of own properties
Keys(obj) == [i \in 1..Len(obj) |-> obj[i].key]

KeySet(obj) == {obj[i].key : i \in 1..Len(obj)}

\* the number a canonical array-index key stands for, -1 for any other key
ArrayIndex(key) == IF key = "1" THEN 1 ELSE IF key = "2" THEN 2 ELSE -1

IsOrdinaryKey(entry) == ArrayIndex(entry.key) < 0

RECURSIVE AscendingIndexKeys(_, _)
AscendingIndexKeys(obj, left) ==
  IF left = {} THEN <<>>
  ELSE LET i == CHOOSE j \in left : \A o \in left : ArrayIndex(obj[j].key) <= ArrayIndex(obj[o].key)
       IN <<obj[i]>> \o AscendingIndexKeys(obj, left \ {i})

\* Object.entries(obj): the own properties, array-index keys first in
\* ascending order, then the other keys in the order of their creation
ObjectEntries(obj) ==
  AscendingIndexKeys(obj, {i \in 1..Len(obj) : ~IsOrdinaryKey(obj[i])})
    \o SelectSeq(obj, IsOrdinaryKey)

\* some of the names every object inherits from Object.prototype
ObjectPrototype == {"constructor", "toString"}

Undefined == [kind |-> "undefined", scene |-> Scene("", "", Arr(<<>>), Arr(<<>>))]

\* obj[key]: the own property, else the inherited one, else undefined
Get(obj, key) ==
  IF key \in KeySet(obj)
  THEN [kind |-> "scene", scene |-> obj[CHOOSE i \in 1..Len(obj) : obj[i].key = key].scene]
  ELSE IF key \in ObjectPrototype
  THEN [kind |-> "inherited", scene |-> Undefined.scene]
  ELSE Undefined

\* { ...obj, [key]: value }
SpreadWith(obj, key, value) ==
  LET copy == ObjectEntries(obj)
  IN IF key \in KeySet(obj)
     THEN [i \in 1..Len(copy) |-> IF copy[i].key = key THEN Entry(key, value) ELSE copy[i]]
     ELSE Append(copy, Entry(key, value))

\* { ...obj } followed by delete copy[key]
SpreadWithout(obj, key) ==
  LET keeps(entry) == entry.key # key
  IN SelectSeq(ObjectEntries(obj), keeps)

\* JSON.stringify / JSON.parse: a text is either the rendering of a value or
\* something that is not JSON at all
\* The rendering lists the properties of the scenes in the order
\* Object.entries gives them, and parsing creates them in the order of the
\* text.
JSONstringify(value) ==
  [wellFormed |-> TRUE,
   value |-> IF "scenes" \in DOMAIN value
             THEN [value EXCEPT !.scenes = ObjectEntries(@)]
             ELSE value]

Malformed == [wellFormed |-> FALSE, value |-> Episode("", "", <<>>)]

MalformedCampaign == [wellFormed |-> FALSE, value |-> Campaign("", "", <<>>)]

JSONparse(text) == [threw |-> ~text.wellFormed, value |-> text.value]

----
(* Structural validation, utils.ts *)

ChoiceError(choice) ==
  IF IsBlank(choice.text) THEN "Choice text is required"
  ELSE IF IsBlank(choice.nextScene) THEN "Next scene is required"
  ELSE ""

\* the error the forEach body throws for one scene, "" when it throws none
SceneError(scene) ==
  IF IsBlank(scene.id) THEN "Scene ID is required"
  ELSE IF IsBlank(scene.title) THEN "Scene title is required"
  ELSE IF ~scene.text.isArray THEN "Scene text must be an array"
  ELSE IF ~scene.choices.isArray THEN "Scene choices must be an array"
  ELSE LET items == scene.choices.items
           bad == {i \in 1..Len(items) : ChoiceError(items[i]) # ""}
       IN IF bad = {} THEN ""
          ELSE ChoiceError(items[CHOOSE i \in bad : \A j \in bad : i <= j])

\* validateEpisode throws at the first violation it meets: the result is the
\* sequence of messages the caller gets to see, empty when nothing is thrown
validateEpisode(episode) ==
  IF IsBlank(episode.title) THEN <<"Episode title is required">>
  ELSE IF Len(episode.scenes) = 0 THEN <<"Episode must have at least one scene">>
  ELSE IF "start" \notin KeySet(episode.scenes) THEN <<"Episode must have a 'start' scene">>
  ELSE LET sc == ObjectEntries(episode.scenes)
           bad == {i \in 1..Len(sc) : SceneError(sc[i].scene) # ""}
       IN IF bad = {} THEN <<>>
          ELSE <<SceneError(sc[CHOOSE i \in bad : \A j \in bad : i <= j].scene)>>

CampaignEpisodeError(ce) ==
  IF IsBlank(ce.title) THEN "Episode title is required"
  ELSE IF IsBlank(ce.description) THEN "Episode description is required"
  ELSE IF ~ce.order.isNumber THEN "Episode order must be a number"
  ELSE ""

validateCampaign(campaign) ==
  IF IsBlank(campaign.title) THEN <<"Campaign title is required">>
  ELSE IF IsBlank(campaign.author) THEN <<"Campaign author is required">>
  ELSE IF IsBlank(campaign.description) THEN <<"Campaign description is required">>
  ELSE IF Len(campaign.episodes) = 0 THEN <<"Campaign must have at least one episode">>
  ELSE LET eps == campaign.episodes
           bad == {i \in 1..Len(eps) : CampaignEpisodeError(eps[i]) # ""}
       IN IF bad = {} THEN <<>>
          ELSE <<CampaignEpisodeError(eps[CHOOSE i \in bad : \A j \in bad : i <= j])>>

----
(* Graph analysis, utils.ts *)

Returned(value) == [threw |-> FALSE, value |-> value]

\* an uncaught TypeError
Thrown == [threw |-> TRUE, value |-> FALSE]

NextScenes(scene) == [i \in 1..Len(scene.choices.items) |-> scene.choices.items[i].nextScene]

\* a call of isSceneReachable at the test of its while loop; expanded lists
\* the ids that went through visited.add, in that order
Looping(sceneId, queue, visited, expanded) ==
  [status |-> "running", sceneId |-> sceneId, queue |-> queue, visited |-> visited,
   expanded |-> expanded, value |-> FALSE]

Ended(st, status, value) == [st EXCEPT !.status = status, !.value = value]

\* a loop that takes an id off the queue without asking visited.has
Iteration_Revisiting(obj, st) ==
  IF st.queue = <<>> THEN Ended(st, "returned", FALSE)
  ELSE LET currentSceneId == Head(st.queue)
           currentScene == Get(obj, currentSceneId)
           seen == st.visited \cup {currentSceneId}
           expanded == Append(st.expanded, currentSceneId)
           targets == NextScenes(currentScene.scene)
           unseen(t) == t \notin seen
       IN IF currentScene.kind = "undefined"
          THEN Looping(st.sceneId, Tail(st.queue), seen, expanded)
          ELSE IF currentScene.kind = "inherited"
          THEN Ended(Looping(st.sceneId, Tail(st.queue), seen, expanded), "thrown", FALSE)
          ELSE IF \E i \in 1..Len(targets) : targets[i] = st.sceneId
          THEN Ended(Looping(st.sceneId, Tail(st.queue), seen, expanded), "returned", TRUE)
          ELSE Looping(st.sceneId, Tail(st.queue) \o SelectSeq(targets, unseen), seen, expanded)

\* the test of the while loop and, when the queue is not empty, one pass
\* through its body
Iteration(obj, st) ==
  IF st.queue = <<>> THEN Ended(st, "returned", FALSE)
  ELSE LET currentSceneId == Head(st.queue)
           currentScene == Get(obj, currentSceneId)
           seen == st.visited \cup {currentSceneId}
           expanded == Append(st.expanded, currentSceneId)
           targets == NextScenes(currentScene.scene)
           unseen(t) == t \notin seen
       IN IF currentSceneId \in st.visited
          THEN Looping(st.sceneId, Tail(st.queue), st.visited, st.expanded)
          ELSE IF currentScene.kind = "undefined"
          THEN Looping(st.sceneId, Tail(st.queue), seen, expanded)
          ELSE IF currentScene.kind = "inherited"
          THEN Ended(Looping(st.sceneId, Tail(st.queue), seen, expanded), "thrown", FALSE)
          ELSE IF \E i \in 1..Len(targets) : targets[i] = st.sceneId
          THEN Ended(Looping(st.sceneId, Tail(st.queue), seen, expanded), "returned", TRUE)
          ELSE Looping(st.sceneId, Tail(st.queue) \o SelectSeq(targets, unseen), seen, expanded)

\* isSceneReachable up to its while loop
Entered(sceneId) ==
  IF sceneId = "start"
  THEN Ended(Looping(sceneId, <<>>, {}, <<>>), "returned", TRUE)
  ELSE Looping(sceneId, <<"start">>, {}, <<>>)

\* the while loop run to its end
RECURSIVE Search(_, _)
Search(obj, st) == IF st.status # "running" THEN st ELSE Search(obj, Iteration(obj, st))

isSceneReachable(obj, sceneId) ==
  LET st == Search(obj, Entered(sceneId))
  IN IF st.status = "thrown" THEN Thrown ELSE Returned(st.value)

RECURSIVE Flatten(_)
Flatten(lists) == IF lists = <<>> THEN <<>> ELSE Head(lists) \o Flatten(Tail(lists))

BrokenLink(sceneId, choiceIndex) == [sceneId |-> sceneId, choiceIndex |-> choiceIndex]

\* choice indexes count from 0
findBrokenLinks(obj) ==
  LET entries == ObjectEntries(obj)
      ofScene(entry) ==
        LET targets == NextScenes(entry.scene)
            broken == {i \in 1..Len(targets) : Get(obj, targets[i]).kind = "undefined"}
            pairs == [i \in 1..Len(targets) |-> BrokenLink(entry.key, i - 1)]
            isBroken(pair) == pair.choiceIndex + 1 \in broken
        IN SelectSeq(pairs, isBroken)
  IN Flatten([i \in 1..Len(entries) |-> ofScene(entries[i])])

\* Object.keys(scenes).filter(...): a throwing callback ends the call
findUnreachableScenes(obj) ==
  LET keys == Keys(ObjectEntries(obj))
      unreachable(key) == ~isSceneReachable(obj, key).value
  IN IF \E i \in 1..Len(keys) : isSceneReachable(obj, keys[i]).threw
     THEN [threw |-> TRUE, value |-> <<>>]
     ELSE [threw |-> FALSE, value |-> SelectSeq(keys, unreachable)]

----
(* Object stores *)

\* a store that keeps the record it has when one of the same id is put
Put_KeepingFirst(store, record) ==
  [k \in DOMAIN store \cup {record.id} |-> IF k \in DOMAIN store THEN store[k] ELSE record]

\* IDBObjectStore.put: insert or replace by key path "id"
Put(store, record) ==
  [k \in DOMAIN store \cup {record.id} |-> IF k = record.id THEN record ELSE store[k]]

\* IDBObjectStore.delete
Delete(store, keys) == [k \in DOMAIN store \ keys |-> store[k]]

\* a store that kept the writes of a transaction that aborted
RolledBack_Kept(before, written) == written

\* what a store holds once its transaction has aborted
RolledBack(before, written) == before

\* `${episode.id}-${Date.now()}`
SnapshotId(episodeId, ms) == <<episodeId, "", ms>>

\* `${episodeId}-manual-${Date.now()}`
ManualSnapshotId(episodeId, ms) == <<episodeId, "manual-", ms>>

NoSnapshot == <<"", "", 0>>

\* primary keys of one episode in key order: a digit sorts before "m"
KeyBefore(a, b) == IF a[2] = b[2] THEN a[3] < b[3] ELSE a[2] = ""

\* the auto-saves cleanupSnapshots keeps
RetentionLimit == 10

\* snapshots.sort((a, b) => new Date(b.timestamp) - new Date(a.timestamp)):
\* newest first, equal timestamps stay in cursor order
RECURSIVE SortNewestFirst(_)
SortNewestFirst(listed) ==
  IF listed = {} THEN <<>>
  ELSE LET first == CHOOSE s \in listed : \A o \in listed \ {s} :
                      \/ s.timestamp > o.timestamp
                      \/ s.timestamp = o.timestamp /\ KeyBefore(s.id, o.id)
       IN <<first>> \o SortNewestFirst(listed \ {first})

IsAutoSave(s) == s.type = "auto-save"

\* a cleanup that counts the manual snapshots among the ten it keeps
cleanupSnapshots_AllTypes(store, episodeId) ==
  LET listed == {[id |-> k, timestamp |-> store[k].timestamp, type |-> store[k].type] :
                   k \in {j \in DOMAIN store : store[j].episodeId = episodeId}}
      sorted == SortNewestFirst(listed)
      toDelete == IF Len(sorted) > RetentionLimit
                  THEN {sorted[i].id : i \in (RetentionLimit + 1)..Len(sorted)}
                  ELSE {}
  IN Delete(store, toDelete)

\* the snapshots store after cleanupSnapshots(episodeId, store) has run
cleanupSnapshots(store, episodeId) ==
  LET listed == {[id |-> k, timestamp |-> store[k].timestamp, type |-> store[k].type] :
                   k \in {j \in DOMAIN store : store[j].episodeId = episodeId}}
      sorted == SortNewestFirst(listed)
      autoSaves == SelectSeq(sorted, IsAutoSave)
      toDelete == IF Len(autoSaves) > RetentionLimit
                  THEN {autoSaves[i].id : i \in (RetentionLimit + 1)..Len(autoSaves)}
                  ELSE {}
  IN Delete(store, toDelete)

----
(* Inputs *)

EpisodeIds == {"e1", "e2"}

ValidScenes ==
  << Entry("start", Scene("start", "Start", Arr(<<"p1", "p2">>), Arr(<<Choice("go", "two")>>))),
     Entry("two", Scene("two", "Two", Arr(<<"q">>), Arr(<<Choice("back", "start")>>))) >>

NoStartScenes ==
  << Entry("two", Scene("two", "Two", Arr(<<"q">>), Arr(<<>>))) >>

OneScene(scene) == << Entry("start", scene) >>

NoEpisode == Episode("", "", <<>>)

NoCampaign == Campaign("", "", <<>>)

\* what callers hand to saveEpisode
SaveInputs ==
  { Episode("e1", "Alpha", ValidScenes),
    Episode("e1", "Beta", ValidScenes),
    Episode("", "Alpha", ValidScenes) }

\* the files handed to importEpisodeFromJSON
ImportInputs ==
  { JSONstringify(Episode("e2", "Alpha", ValidScenes)),
    JSONstringify(Episode("e2", "", ValidScenes)),
    Malformed }

CampaignInputs ==
  { Campaign("c1", "Saga", <<CampaignEpisode("First", "D", Num(1))>>),
    Campaign("", "Saga", <<CampaignEpisode("First", "D", Num(1))>>) }

CampaignImportInputs ==
  { JSONstringify(Campaign("c1", "Saga", <<CampaignEpisode("First", "D", Num(1))>>)),
    JSONstringify(Campaign("c1", "", <<>>)),
    MalformedCampaign }

\* the documents handed to restoreFromBackup
\* lists: the document has both an episodes and a campaigns property
BackupInputs ==
  { [wellFormed |-> TRUE, lists |-> TRUE,
     episodes |-> <<Episode("e2", "Alpha", ValidScenes)>>,
     campaigns |-> <<Campaign("c1", "Saga", <<CampaignEpisode("First", "D", Num(1))>>)>>],
    [wellFormed |-> TRUE, lists |-> TRUE, episodes |-> <<>>, campaigns |-> <<>>],
    [wellFormed |-> TRUE, lists |-> FALSE, episodes |-> <<>>, campaigns |-> <<>>],
    [wellFormed |-> FALSE, lists |-> FALSE, episodes |-> <<>>, campaigns |-> <<>>] }

\* episodes with one structural defect each, and one with two
DefectiveEpisodes(id) ==
  { Episode(id, "", ValidScenes),
    Episode(id, " ", NoStartScenes),
    Episode(id, "Alpha", <<>>),
    Episode(id, "Alpha", NoStartScenes),
    Episode(id, "Alpha", OneScene(Scene("start", "Start", NotAnArray, Arr(<<>>)))),
    Episode(id, "Alpha", OneScene(Scene("start", "Start", Arr(<<"p">>), NotAnArray))),
    Episode(id, "Alpha", OneScene(Scene("start", "Start", Arr(<<"p">>), Arr(<<Choice("", "start")>>)))),
    Episode(id, "Alpha", OneScene(Scene("start", "Start", Arr(<<"p">>), Arr(<<Choice("go", "")>>)))) }

ValidationInputs == DefectiveEpisodes("e1") \cup { Episode("e1", "Alpha", ValidScenes) }

DefectiveCampaigns ==
  { Campaign("c1", "", <<CampaignEpisode("First", "D", Num(1))>>),
    Campaign("c1", "Saga", <<>>),
    Campaign("c1", "Saga", <<CampaignEpisode("", "D", Num(1))>>),
    Campaign("c1", "Saga", <<CampaignEpisode("First", "D", NotANumber)>>) }

CampaignValidationInputs ==
  DefectiveCampaigns \cup { Campaign("c1", "Saga", <<CampaignEpisode("First", "D", Num(1))>>) }

\* storage failures: none, the first request of the transaction fails, a
\* later request of the same transaction fails
Faults == {"none", "first", "later"}

----
(* Operations of the persistence engine.  The lower-case operators give   *)
(* the outcome of one call: how its promise settles, whether its          *)
(* transaction commits, and the stores afterwards.                        *)

Outcome(result, committed, errors, id, snap, eps, snaps) ==
  [result |-> result, committed |-> committed, errors |-> errors, id |-> id,
   snap |-> snap, episodes |-> eps, snapshots |-> snaps]

\* an outcome together with what the call wrote to console.warn
Warned(o, findings) == o @@ [warnings |-> findings]

\* The findings of validateEpisode are caught and logged, and the save goes
\* on.  Fault "first": the put of the episode fails; fault "later": the add
\* of the snapshot fails, as it also does without a fault when the snapshot
\* id is taken (a failing cleanup request ends the same way: resolve, then
\* abort)
saveEpisode(episode, fault) ==
  LET findings == validateEpisode(episode)
      episodeWithTimestamp == [episode EXCEPT !.lastModified = now]
      snapshotId == SnapshotId(episode.id, now)
      snapshot == [id |-> snapshotId,
                   episodeId |-> episode.id,
                   data |-> JSONstringify(episodeWithTimestamp),
                   timestamp |-> now,
                   type |-> "auto-save"]
      put == Put(episodes, episodeWithTimestamp)
      added == Put(snapshots, snapshot)
  IN IF episode.id = ""
     THEN Outcome("rejected", FALSE, <<"Invalid episode data: Missing ID">>, "",
                  NoSnapshot, episodes, snapshots)
     ELSE IF fault = "first"
     THEN Warned(Outcome("rejected", FALSE, <<"Failed to save episode">>, "",
                         NoSnapshot, episodes, snapshots), findings)
     ELSE IF snapshotId \in DOMAIN snapshots \/ fault = "later"
     THEN Warned(Outcome("resolved", FALSE, <<>>, episode.id,
                         NoSnapshot, RolledBack(episodes, put), snapshots), findings)
     ELSE Warned(Outcome("resolved", TRUE, <<>>, episode.id, snapshotId,
                         put, cleanupSnapshots(added, episode.id)), findings)

\* an import that does not validate what it parsed
importEpisodeFromJSON_Unchecked(jsonString, fault) ==
  LET parsed == JSONparse(jsonString)
  IN IF parsed.threw
     THEN Outcome("rejected", FALSE, <<"SyntaxError">>, "", NoSnapshot, episodes, snapshots)
     ELSE saveEpisode(parsed.value, fault)

importEpisodeFromJSON(jsonString, fault) ==
  LET parsed == JSONparse(jsonString)
      episode == parsed.value
      findings == validateEpisode(episode)
      saved == saveEpisode(episode, fault)
      refused(errors) == Outcome("rejected", FALSE, errors, "", NoSnapshot, episodes, snapshots)
  IN IF parsed.threw THEN refused(<<"SyntaxError">>)
     ELSE IF findings # <<>> THEN refused(findings)
     ELSE saved

\* a delete that leaves the snapshots of the episode
deleteEpisode_RecordOnly(id, fault) ==
  IF id = "" THEN Outcome("rejected", FALSE, <<"Episode ID is required">>, "", NoSnapshot, episodes, snapshots)
  ELSE Outcome("resolved", TRUE, <<>>, id, NoSnapshot, Delete(episodes, {id}), snapshots)

deleteEpisode(id, fault) ==
  LET owned == {k \in DOMAIN snapshots : snapshots[k].episodeId = id}
      deleted == Delete(episodes, {id})
      cascaded == Delete(snapshots, owned)
  IN IF id = "" THEN Outcome("rejected", FALSE, <<"Episode ID is required">>, "", NoSnapshot, episodes, snapshots)
     ELSE IF fault = "first"
     THEN Outcome("rejected", FALSE, <<"Failed to delete episode">>, "", NoSnapshot,
                  episodes, snapshots)
     ELSE IF fault = "later"
     THEN Outcome("resolved", FALSE, <<>>, id, NoSnapshot,
                  RolledBack(episodes, deleted), snapshots)
     ELSE Outcome("resolved", TRUE, <<>>, id, NoSnapshot, deleted, cascaded)

\* a restore that keeps the lastModified of the payload
restoreEpisodeFromSnapshot_Unstamped(snapshotId, fault) ==
  IF snapshotId \notin DOMAIN snapshots \/ fault # "none"
  THEN Outcome("rejected", FALSE, <<>>, "", NoSnapshot, episodes, snapshots)
  ELSE Outcome("resolved", TRUE, <<>>, JSONparse(snapshots[snapshotId].data).value.id, snapshotId,
               Put(episodes, JSONparse(snapshots[snapshotId].data).value), snapshots)

\* a restore that uses its snapshot up
restoreEpisodeFromSnapshot_Consuming(snapshotId, fault) ==
  IF snapshotId \notin DOMAIN snapshots \/ fault # "none"
  THEN Outcome("rejected", FALSE, <<>>, "", NoSnapshot, episodes, snapshots)
  ELSE Outcome("resolved", TRUE, <<>>, JSONparse(snapshots[snapshotId].data).value.id, snapshotId,
               Put(episodes, [JSONparse(snapshots[snapshotId].data).value EXCEPT !.lastModified = now]),
               Delete(snapshots, {snapshotId}))

restoreEpisodeFromSnapshot(snapshotId, fault) ==
  LET parsed == JSONparse(snapshots[snapshotId].data)
      episode == [parsed.value EXCEPT !.lastModified = now]
      put == Put(episodes, episode)
      rejected(errors) == Outcome("rejected", FALSE, errors, "", NoSnapshot, episodes, snapshots)
  IN IF snapshotId = NoSnapshot THEN rejected(<<"Snapshot ID is required">>)
     ELSE IF fault = "first" THEN rejected(<<"Failed to get snapshot">>)
     ELSE IF snapshotId \notin DOMAIN snapshots THEN rejected(<<"Snapshot not found">>)
     ELSE IF parsed.threw THEN rejected(<<"Failed to parse snapshot data">>)
     ELSE IF fault = "later"
     THEN rejected(<<"Failed to restore episode">>)
     ELSE Outcome("resolved", TRUE, <<>>, episode.id, snapshotId, put, snapshots)

\* a manual snapshot that is filed as an auto-save
createManualSnapshot_AutoSave(episodeId, episode, fault) ==
  LET snapshotId == ManualSnapshotId(episodeId, now)
      snapshot == [id |-> snapshotId,
                   episodeId |-> episodeId,
                   data |-> JSONstringify(episode),
                   timestamp |-> now,
                   type |-> "auto-save"]
  IN IF fault # "none" \/ snapshotId \in DOMAIN snapshots
     THEN Outcome("rejected", FALSE, <<"Failed to create manual snapshot">>, "", NoSnapshot,
                  episodes, snapshots)
     ELSE Outcome("resolved", TRUE, <<>>, episodeId, snapshotId, episodes, Put(snapshots, snapshot))

\* createManualSnapshot after getEpisode has returned the record `episode`
createManualSnapshot(episodeId, episode, fault) ==
  LET snapshotId == ManualSnapshotId(episodeId, now)
      snapshot == [id |-> snapshotId,
                   episodeId |-> episodeId,
                   data |-> JSONstringify(episode),
                   timestamp |-> now,
                   type |-> "manual-save"]
      added == Put(snapshots, snapshot)
  IN IF fault # "none" \/ snapshotId \in DOMAIN snapshots
     THEN Outcome("rejected", FALSE, <<"Failed to create manual snapshot">>, "", NoSnapshot,
                  episodes, snapshots)
     ELSE Outcome("resolved", TRUE, <<>>, episodeId, snapshotId, episodes, added)

CampaignOutcome(result, committed, errors, id, camps) ==
  [result |-> result, committed |-> committed, errors |-> errors, id |-> id,
   snap |-> NoSnapshot, campaigns |-> camps]

\* the findings of validateCampaign are caught and logged as well
saveCampaign(campaign, fault) ==
  LET findings == validateCampaign(campaign)
      campaignWithTimestamp == [campaign EXCEPT !.lastModified = now]
      put == Put(campaigns, campaignWithTimestamp)
  IN IF campaign.id = ""
     THEN CampaignOutcome("rejected", FALSE, <<"Invalid campaign data: Missing ID">>, "", campaigns)
     ELSE IF fault # "none"
     THEN Warned(CampaignOutcome("rejected", FALSE, <<"Failed to save campaign">>, "", campaigns),
                 findings)
     ELSE Warned(CampaignOutcome("resolved", TRUE, <<>>, campaign.id, put), findings)

\* an import that does not validate what it parsed
importCampaignFromJSON_Unchecked(jsonString, fault) ==
  LET parsed == JSONparse(jsonString)
  IN IF parsed.threw
     THEN CampaignOutcome("rejected", FALSE, <<"SyntaxError">>, "", campaigns)
     ELSE saveCampaign(parsed.value, fault)

importCampaignFromJSON(jsonString, fault) ==
  LET parsed == JSONparse(jsonString)
      campaign == parsed.value
      findings == validateCampaign(campaign)
      refused(errors) == CampaignOutcome("rejected", FALSE, errors, "", campaigns)
  IN IF parsed.threw THEN refused(<<"SyntaxError">>)
     ELSE IF findings # <<>> THEN refused(findings)
     ELSE saveCampaign(campaign, fault)

\* what an export call hands back
Exported(result, errors, text) == [result |-> result, errors |-> errors, text |-> text]

\* const { lastModified, ...exportEpisode } = episode
WithoutLastModified(record) == [record EXCEPT !.lastModified = NoStamp]

\* an export that renders the stored record as it is
exportEpisodeToJSON_Stamped(id) ==
  IF id = "" THEN Exported("rejected", <<"Episode ID is required">>, Malformed)
  ELSE IF id \notin DOMAIN episodes THEN Exported("rejected", <<"Episode not found">>, Malformed)
  ELSE Exported("resolved", <<>>, JSONstringify(episodes[id]))

exportEpisodeToJSON(id) ==
  IF id = "" THEN Exported("rejected", <<"Episode ID is required">>, Malformed)
  ELSE IF id \notin DOMAIN episodes THEN Exported("rejected", <<"Episode not found">>, Malformed)
  ELSE Exported("resolved", <<>>, JSONstringify(WithoutLastModified(episodes[id])))

exportCampaignToJSON(id) ==
  IF id = "" THEN Exported("rejected", <<"Campaign ID is required">>, MalformedCampaign)
  ELSE IF id \notin DOMAIN campaigns THEN Exported("rejected", <<"Campaign not found">>, MalformedCampaign)
  ELSE Exported("resolved", <<>>, JSONstringify(WithoutLastModified(campaigns[id])))

\* getAll() on a store: its records in the order of their keys
RECURSIVE GetAll(_, _)
GetAll(store, keys) ==
  IF keys = <<>> THEN <<>>
  ELSE (IF Head(keys) \in DOMAIN store THEN <<store[Head(keys)]>> ELSE <<>>)
         \o GetAll(store, Tail(keys))

\* the records of a list as they read in the text JSON.stringify wrote
Serialized(records) == [i \in DOMAIN records |-> JSONparse(JSONstringify(records[i])).value]

\* the backup document; its version and timestamp are not read back
backupAllData ==
  [wellFormed |-> TRUE, lists |-> TRUE,
   episodes |-> Serialized(GetAll(episodes, <<"e1", "e2">>)),
   campaigns |-> Serialized(GetAll(campaigns, <<"c1">>))]

deleteCampaign(id, fault) ==
  LET deleted == Delete(campaigns, {id})
  IN IF id = "" THEN CampaignOutcome("rejected", FALSE, <<"Campaign ID is required">>, "", campaigns)
     ELSE IF fault # "none"
     THEN CampaignOutcome("rejected", FALSE, <<"Failed to delete campaign">>, "", campaigns)
     ELSE CampaignOutcome("resolved", TRUE, <<>>, id, deleted)

----
(* The calls as steps of the store *)

NoManual == [active |-> FALSE, episodeId |-> "", episode |-> NoEpisode]

EpisodeStep(o) ==
  /\ episodes' = o.episodes
  /\ snapshots' = o.snapshots
  /\ UNCHANGED <<campaigns, now, manual, backup>>
  /\ UNCHANGED <<graphVars, shellVars>>

\* a campaign write that also files a snapshot of the campaign
CampaignStep_Snapshotting(o) ==
  /\ campaigns' = o.campaigns
  /\ snapshots' = IF o.committed
                  THEN Put(snapshots, [id |-> SnapshotId(o.id, now), episodeId |-> o.id,
                                       data |-> JSONstringify(NoCampaign), timestamp |-> now,
                                       type |-> "auto-save"])
                  ELSE snapshots
  /\ UNCHANGED <<episodes, now, manual, backup>>
  /\ UNCHANGED <<graphVars, shellVars>>

CampaignStep(o) ==
  /\ campaigns' = o.campaigns
  /\ UNCHANGED <<episodes, snapshots, now, manual, backup>>
  /\ UNCHANGED <<graphVars, shellVars>>

SaveEpisode(episode, fault) ==
  /\ episode.id = "" => fault = "none"
  /\ EpisodeStep(saveEpisode(episode, fault))

ImportEpisodeFromJSON(jsonString, fault) ==
  /\ (JSONparse(jsonString).threw \/ validateEpisode(JSONparse(jsonString).value) # <<>>) => fault = "none"
  /\ EpisodeStep(importEpisodeFromJSON(jsonString, fault))

DeleteEpisode(id, fault) ==
  /\ id = "" => fault = "none"
  /\ EpisodeStep(deleteEpisode(id, fault))

RestoreEpisodeFromSnapshot(snapshotId, fault) ==
  /\ snapshotId \notin DOMAIN snapshots => fault = "none"
  /\ EpisodeStep(restoreEpisodeFromSnapshot(snapshotId, fault))

\* createManualSnapshot up to the end of its await of getEpisode: a read-only
\* transaction; the call goes on only when a record was found
CreateManualSnapshotRead(episodeId) ==
  /\ ~manual.active
  /\ Cardinality({k \in DOMAIN snapshots : snapshots[k].type = "manual-save"}) < MaxManual
  /\ manual' = IF episodeId \in DOMAIN episodes
               THEN [active |-> TRUE, episodeId |-> episodeId, episode |-> episodes[episodeId]]
               ELSE manual
  /\ UNCHANGED <<episodes, campaigns, snapshots, now, backup>>
  /\ UNCHANGED <<graphVars, shellVars>>

\* createManualSnapshot from there on: a transaction on the snapshots store
CreateManualSnapshotAdd(fault) ==
  /\ manual.active
  /\ manual' = NoManual
  /\ snapshots' = createManualSnapshot(manual.episodeId, manual.episode, fault).snapshots
  /\ UNCHANGED <<episodes, campaigns, now, backup>>
  /\ UNCHANGED <<graphVars, shellVars>>

SaveCampaign(campaign, fault) ==
  /\ campaign.id = "" => fault = "none"
  /\ CampaignStep(saveCampaign(campaign, fault))

ImportCampaignFromJSON(jsonString, fault) ==
  /\ (JSONparse(jsonString).threw \/ validateCampaign(JSONparse(jsonString).value) # <<>>) => fault = "none"
  /\ CampaignStep(importCampaignFromJSON(jsonString, fault))

DeleteCampaign(id, fault) ==
  /\ id = "" => fault = "none"
  /\ CampaignStep(deleteCampaign(id, fault))

\* an export reads one record and writes nothing
ExportStep ==
  /\ UNCHANGED <<episodes, campaigns, snapshots, now, manual, backup>>
  /\ UNCHANGED <<graphVars, shellVars>>

\* document: the parsed backup; episodes, campaigns: what the two loops
\* have still to visit; panel: the call is the dashboard's handler
NoBackup ==
  [active |-> FALSE, panel |-> FALSE,
   document |-> [episodes |-> <<>>, campaigns |-> <<>>],
   episodes |-> <<>>, campaigns |-> <<>>]

Restoring(backupJson, panel) ==
  [active |-> TRUE, panel |-> panel,
   document |-> [episodes |-> backupJson.episodes, campaigns |-> backupJson.campaigns],
   episodes |-> backupJson.episodes, campaigns |-> backupJson.campaigns]

\* restoreFromBackup up to its first save: the document is parsed and its
\* two lists are checked to be there; with two empty lists the call is over
RestoreFromBackupBegin(backupJson) ==
  /\ ~backup.active
  /\ backup' = IF /\ backupJson.wellFormed
                  /\ backupJson.lists
                  /\ (backupJson.episodes # <<>> \/ backupJson.campaigns # <<>>)
               THEN Restoring(backupJson, FALSE)
               ELSE backup
  /\ UNCHANGED <<episodes, campaigns, snapshots, now, manual>>
  /\ UNCHANGED <<graphVars, shellVars>>

\* the next await of its loops: saveEpisode for the episodes in order, then
\* saveCampaign for the campaigns in order; a rejected save ends the call
RestoreFromBackupStep(fault) ==
  /\ backup.active /\ ~backup.panel
  /\ IF backup.episodes # <<>>
     THEN LET o == saveEpisode(Head(backup.episodes), fault)
              rest == [backup EXCEPT !.episodes = Tail(backup.episodes)]
          IN /\ episodes' = o.episodes
             /\ snapshots' = o.snapshots
             /\ backup' = IF o.result = "rejected" \/ (rest.episodes = <<>> /\ rest.campaigns = <<>>)
                          THEN NoBackup ELSE rest
             /\ UNCHANGED campaigns
     ELSE LET o == saveCampaign(Head(backup.campaigns), fault)
              rest == [backup EXCEPT !.campaigns = Tail(backup.campaigns)]
          IN /\ campaigns' = o.campaigns
             /\ backup' = IF o.result = "rejected" \/ rest.campaigns = <<>> THEN NoBackup ELSE rest
             /\ UNCHANGED <<episodes, snapshots>>
  /\ UNCHANGED <<now, manual>>
  /\ UNCHANGED <<graphVars, shellVars>>

\* the dashboard's restore up to its first import: the file is parsed, its
\* two lists are checked to be there and the user is asked to go on
HandleBackupFileChangeBegin(backupJson, confirmed) ==
  /\ ~backup.active
  /\ backup' = IF /\ backupJson.wellFormed
                  /\ backupJson.lists
                  /\ confirmed
                  /\ (backupJson.episodes # <<>> \/ backupJson.campaigns # <<>>)
               THEN Restoring(backupJson, TRUE)
               ELSE backup
  /\ UNCHANGED <<episodes, campaigns, snapshots, now, manual>>
  /\ UNCHANGED <<graphVars, shellVars>>

\* the next await of its loops: importEpisodeFromJSON for the episodes in
\* order, then importCampaignFromJSON for the campaigns in order; a rejected
\* import ends the handler with the "Restore failed" toast
HandleBackupFileChangeStep(fault) ==
  /\ backup.active /\ backup.panel
  /\ IF backup.episodes # <<>>
     THEN LET o == importEpisodeFromJSON(JSONstringify(Head(backup.episodes)), fault)
              rest == [backup EXCEPT !.episodes = Tail(backup.episodes)]
          IN /\ episodes' = o.episodes
             /\ snapshots' = o.snapshots
             /\ backup' = IF o.result = "rejected" \/ (rest.episodes = <<>> /\ rest.campaigns = <<>>)
                          THEN NoBackup ELSE rest
             /\ UNCHANGED campaigns
     ELSE LET o == importCampaignFromJSON(JSONstringify(Head(backup.campaigns)), fault)
              rest == [backup EXCEPT !.campaigns = Tail(backup.campaigns)]
          IN /\ campaigns' = o.campaigns
             /\ backup' = IF o.result = "rejected" \/ rest.campaigns = <<>> THEN NoBackup ELSE rest
             /\ UNCHANGED <<episodes, snapshots>>
  /\ UNCHANGED <<now, manual>>
  /\ UNCHANGED <<graphVars, shellVars>>

\* the application is opened on a database that does not exist yet: its
\* three object stores are created empty
FreshStore ==
  /\ episodes' = [k \in {} |-> 0]
  /\ campaigns' = [k \in {} |-> 0]
  /\ snapshots' = [k \in {} |-> 0]
  /\ UNCHANGED <<now, manual, backup>>
  /\ UNCHANGED <<graphVars, shellVars>>

\* a millisecond passes
Tick(limit) ==
  /\ now < limit
  /\ now' = now + 1
  /\ UNCHANGED <<episodes, campaigns, snapshots, manual, backup>>
  /\ UNCHANGED <<graphVars, shellVars>>

----
(* The database and its schema *)

DB_VERSION == 1

StoreNames == {"episodes", "campaigns", "snapshots", "settings"}

\* no database of the name exists (IndexedDB reports version 0)
NoDatabase == [version |-> 0, stores |-> {}]

\* indexedDB.open(DB_NAME, DB_VERSION): a database below the version is
\* raised to it inside a versionchange transaction, in which the request's
\* onupgradeneeded handler, when it has one, creates the stores that are not
\* there; a database at the version is opened as it is
Opened(db, onupgradeneeded) ==
  IF db.version >= DB_VERSION THEN db
  ELSE [version |-> DB_VERSION,
        stores |-> IF onupgradeneeded THEN db.stores \cup StoreNames ELSE db.stores]

InitializeDatabase ==
  /\ database' = Opened(database, TRUE)
  /\ UNCHANGED <<episodes, campaigns, snapshots, now, manual, backup>>
  /\ UNCHANGED <<graphVars, editor, debounced, campaignEpisodes>>

\* true when the put into the settings store succeeded; db.transaction
\* throws on a store that is not there and the catch resolves false
checkDatabaseConnection == "settings" \in Opened(database, FALSE).stores

CheckDatabaseConnection ==
  /\ database' = Opened(database, FALSE)
  /\ UNCHANGED <<episodes, campaigns, snapshots, now, manual, backup>>
  /\ UNCHANGED <<graphVars, editor, debounced, campaignEpisodes>>

\* a call of the engine whose getDatabase opens a database without the
\* stores of its transaction: db.transaction throws and the call rejects
GetDatabaseWithoutStores(names) ==
  /\ ~(names \subseteq Opened(database, FALSE).stores)
  /\ database' = Opened(database, FALSE)
  /\ UNCHANGED <<episodes, campaigns, snapshots, now, manual, backup>>
  /\ UNCHANGED <<graphVars, editor, debounced, campaignEpisodes>>

\* RESET DATABASE of the debug panel, at the moment the deletion is carried
\* out: the database and all it stored are gone
ResetDatabase ==
  /\ database' = NoDatabase
  /\ episodes' = [k \in {} |-> 0]
  /\ campaigns' = [k \in {} |-> 0]
  /\ snapshots' = [k \in {} |-> 0]
  /\ UNCHANGED <<now, manual, backup>>
  /\ UNCHANGED <<graphVars, editor, debounced, campaignEpisodes>>

----
(* The episode editor's auto-save, lcars-textarea.tsx, on debounce of     *)
(* utils.ts.  A timer of setTimeout fires at its time or later.           *)

\* timeout === null
NoTimer == [due |-> -1, args |-> NoEpisode]

\* a call of the function debounce returned that sets no timer aside
DebouncedCall_Piling(d, args) ==
  LET handle == [due |-> now + Wait, args |-> args]
  IN [timeout |-> handle, timers |-> d.timers \cup {handle}]

\* a call of the function debounce returned: the timer in timeout, if any,
\* is cleared and a timer for later is set
DebouncedCall(d, args) ==
  LET cleared == IF d.timeout # NoTimer THEN d.timers \ {d.timeout} ELSE d.timers
      handle == [due |-> now + Wait, args |-> args]
  IN [timeout |-> handle, timers |-> cleared \cup {handle}]

\* the errors the editor's validateEpisode collects
EditorErrors(ep) ==
  LET keys == KeySet(ep.scenes)
      broken == \E i \in 1..Len(ep.scenes) :
                       \E j \in 1..Len(NextScenes(ep.scenes[i].scene)) :
                         NextScenes(ep.scenes[i].scene)[j] \notin keys
      when(test, error) == IF test THEN <<error>> ELSE <<>>
  IN when(IsBlank(ep.title), "Episode title is required")
       \o when(IsBlank(ep.author), "Author name is required")
       \o when(IsBlank(ep.description), "Episode description is required")
       \o (IF Len(ep.scenes) = 0 THEN <<"Episode must have at least one scene">>
           ELSE when("start" \notin keys, "Episode must have a 'start' scene")
                  \o when(broken, "Episode contains broken scene links"))

\* what a call of the debounced function or of func left for the record;
\* calls: the calls of the debounced function since func was last invoked,
\* 2 for two or more
Called(op, args, began) ==
  [op |-> op, input |-> args, at |-> now, began |-> began,
   calls |-> IF last.op # "debouncedSave" THEN (IF op = "func" THEN 0 ELSE 1)
             ELSE (IF op = "func" THEN last.calls ELSE 2)]

\* setEpisode(updatedEpisode) in a handler of the mounted editor, and the
\* effect on [episode] that follows the render: debouncedSave(episode)
SetEpisode(updatedEpisode) ==
  /\ editor.mounted
  /\ editor' = [editor EXCEPT !.episode = updatedEpisode]
  /\ debounced' = DebouncedCall(debounced, updatedEpisode)
  /\ last' = Called("debouncedSave", updatedEpisode, FALSE)
  /\ UNCHANGED <<episodes, campaigns, snapshots, now, manual, backup, database>>
  /\ UNCHANGED <<graphVars, campaignEpisodes>>

\* func of an unmounted editor returns at once
AutoSaveBegins_Unguarded(episodeToSave) == TRUE

\* if (!isMounted.current) return
AutoSaveBegins(episodeToSave) == editor.mounted

\* a timer fires: later() sets timeout to null and calls func with the
\* arguments of its call; func, in a mounted editor, calls saveEpisode
Later(handle) ==
  /\ handle \in debounced.timers
  /\ now >= handle.due
  /\ debounced' = [timeout |-> NoTimer, timers |-> debounced.timers \ {handle}]
  /\ editor' = IF AutoSaveBegins(handle.args)
               THEN [editor EXCEPT !.inFlight = Append(@, handle.args)]
               ELSE editor
  /\ last' = Called("func", handle.args, AutoSaveBegins(handle.args))
  /\ UNCHANGED <<episodes, campaigns, snapshots, now, manual, backup, database>>
  /\ UNCHANGED <<graphVars, campaignEpisodes>>

\* the transaction of a saveEpisode that func called settles, whether the
\* editor is still mounted or not
AutoSaveSettles(fault) ==
  /\ editor.inFlight # <<>>
  /\ LET o == saveEpisode(Head(editor.inFlight), fault)
     IN /\ episodes' = o.episodes
        /\ snapshots' = o.snapshots
  /\ editor' = [editor EXCEPT !.inFlight = Tail(@)]
  /\ UNCHANGED <<campaigns, now, last, manual, backup, database, debounced>>
  /\ UNCHANGED <<graphVars, campaignEpisodes>>

\* what a handler of the editor's buttons left for the record
Handled(op, refused) == [op |-> op, refused |-> refused, input |-> editor.episode]

\* validateEpisode(episode) as the three handlers call it
Gate(ep) == EditorErrors(ep) = <<>>

\* SAVE EPISODE, up to the end of its await of saveEpisode; the handler goes
\* on to createManualSnapshot(episode.id) when the save resolved
HandleSave ==
  /\ editor.episode # NoEpisode
  /\ manual = NoManual
  /\ LET o == saveEpisode(editor.episode, "none")
     IN IF Gate(editor.episode)
        THEN /\ episodes' = o.episodes
             /\ snapshots' = o.snapshots
             /\ manual' = [NoManual EXCEPT !.episodeId = editor.episode.id]
             /\ last' = Handled("handleSave", FALSE)
        ELSE /\ UNCHANGED <<episodes, snapshots, manual>>
             /\ last' = Handled("handleSave", TRUE)
  /\ UNCHANGED <<campaigns, now, backup>>
  /\ UNCHANGED <<graphVars, shellVars>>

\* the getEpisode of that createManualSnapshot; CreateManualSnapshotAdd
\* ends the handler
HandleSaveReads ==
  /\ ~manual.active /\ manual.episodeId # ""
  /\ manual' = IF manual.episodeId \in DOMAIN episodes
               THEN [active |-> TRUE, episodeId |-> manual.episodeId,
                     episode |-> episodes[manual.episodeId]]
               ELSE NoManual
  /\ UNCHANGED <<episodes, campaigns, snapshots, now, last, backup>>
  /\ UNCHANGED <<graphVars, shellVars>>

\* EXPORT: the stored record is read and handed to the browser as a file
HandleExport ==
  /\ editor.episode # NoEpisode
  /\ last' = Handled("handleExport", ~Gate(editor.episode))
  /\ UNCHANGED <<episodes, campaigns, snapshots, now, manual, backup>>
  /\ UNCHANGED <<graphVars, shellVars>>

\* TEST: onTest(episode.id) hands the stored episode to the story tester
HandleTestClick ==
  /\ editor.episode # NoEpisode
  /\ last' = Handled("handleTestClick", ~Gate(editor.episode))
  /\ UNCHANGED <<episodes, campaigns, snapshots, now, manual, backup>>
  /\ UNCHANGED <<graphVars, shellVars>>

\* the cleanup of the editor's first effect
Unmount ==
  /\ editor.mounted
  /\ editor' = [editor EXCEPT !.mounted = FALSE]
  /\ UNCHANGED <<storeVars, database, debounced>>
  /\ UNCHANGED <<graphVars, campaignEpisodes>>

----
(* The campaign episode manager, campaign-flow-viewer.tsx; an index is    *)
(* 0-based as in the source                                               *)

\* updatedEpisodes.forEach((episode, idx) => { episode.order = idx + 1 })
Renumbered(list) == [i \in 1..Len(list) |-> [list[i] EXCEPT !.order = Num(i)]]

\* updatedEpisodes.splice(index, 1)
Spliced(list, index) ==
  [i \in 1..(Len(list) - 1) |-> IF i <= index THEN list[i] ELSE list[i + 1]]

Swapped(list, index, newIndex) ==
  [list EXCEPT ![index + 1] = list[newIndex + 1], ![newIndex + 1] = list[index + 1]]

handleRemoveEpisode(list, index) == Renumbered(Spliced(list, index))

\* a move that leaves the order numbers as they are
handleMoveEpisode_Unnumbered(list, index, direction) ==
  IF (direction = "up" /\ index = 0) \/ (direction = "down" /\ index = Len(list) - 1)
  THEN list
  ELSE Swapped(list, index, IF direction = "up" THEN index - 1 ELSE index + 1)

handleMoveEpisode(list, index, direction) ==
  IF (direction = "up" /\ index = 0) \/ (direction = "down" /\ index = Len(list) - 1)
  THEN list
  ELSE Renumbered(Swapped(list, index, IF direction = "up" THEN index - 1 ELSE index + 1))

\* onChange(updatedEpisodes) of a handler of the manager; a handler that
\* returns early calls nothing.  The record keeps the handler, its index and
\* the entries it was given
ManagerStep(op, index, updatedEpisodes) ==
  /\ campaignEpisodes' = updatedEpisodes
  /\ last' = [op |-> op, index |-> index, campaignEpisodes |-> campaignEpisodes]
  /\ UNCHANGED <<episodes, campaigns, snapshots, now, manual, backup>>
  /\ UNCHANGED <<graphVars, database, editor, debounced>>

\* an episode is picked in the dialog
HandleSelectEpisode(episodeId) ==
  /\ Len(campaignEpisodes) < MaxEntries
  /\ ManagerStep("handleSelectEpisode", Len(campaignEpisodes),
                 Append(campaignEpisodes,
                        [CampaignEpisode("T", "D", Num(Len(campaignEpisodes) + 1))
                           EXCEPT !.episodeId = episodeId]))

\* the buttons and the Order field of the entries shown
HandleRemoveEpisode(index) ==
  /\ index < Len(campaignEpisodes)
  /\ ManagerStep("handleRemoveEpisode", index, handleRemoveEpisode(campaignEpisodes, index))

HandleMoveEpisode(index, direction) ==
  /\ index < Len(campaignEpisodes)
  /\ ManagerStep(direction, index, handleMoveEpisode(campaignEpisodes, index, direction))

HandleEpisodeChange(index, value) ==
  /\ index < Len(campaignEpisodes)
  /\ ManagerStep("handleEpisodeChange", index,
                 [campaignEpisodes EXCEPT ![index + 1].order = Num(value)])

NextManager ==
  \/ \E id \in {"e1", "e2"} : HandleSelectEpisode(id)
  \/ \E index \in 0..(MaxEntries - 1) : HandleRemoveEpisode(index)
  \/ \E index \in 0..(MaxEntries - 1), direction \in {"up", "down"} : HandleMoveEpisode(index, direction)
  \/ \E index \in 0..(MaxEntries - 1), value \in 1..MaxEntries : HandleEpisodeChange(index, value)

----
(* What the caller of the last settled call saw *)

\* removed: how many snapshots the call deleted
Settled(op, o, input) ==
  [op |-> op, id |-> o.id, snap |-> o.snap, result |-> o.result,
   committed |-> o.committed, errors |-> o.errors, input |-> input,
   removed |-> Cardinality(DOMAIN snapshots \ DOMAIN o.snapshots)]

SettledCampaign(op, o, input) ==
  [op |-> op, id |-> o.id, snap |-> NoSnapshot, result |-> o.result,
   committed |-> o.committed, errors |-> o.errors, input |-> input, removed |-> 0]

\* the same without the error messages and the argument
Brief(op, o) == [Settled(op, o, NoEpisode) EXCEPT !.errors = <<>>]

Nothing ==
  [op |-> "none", id |-> "", snap |-> NoSnapshot, result |-> "resolved",
   committed |-> FALSE, errors |-> <<>>, input |-> NoEpisode, removed |-> 0]

Ticked == [Nothing EXCEPT !.op = "tick"]

NotFound == [Nothing EXCEPT !.op = "createManualSnapshot", !.result = "rejected"]

\* an export as its caller saw it; input is the text handed back
SettledExport(op, id, e) ==
  [Nothing EXCEPT !.op = op, !.id = id, !.result = e.result, !.errors = e.errors, !.input = e.text]

----
(* The episode store under its operations and storage failures *)

EmptyStore == [k \in {} |-> 0]

InitStore ==
  /\ episodes = EmptyStore
  /\ campaigns = EmptyStore
  /\ snapshots = EmptyStore
  /\ now = 1
  /\ last = Nothing
  /\ manual = NoManual
  /\ backup = NoBackup

\* no call of isSceneReachable is under way
NoTraversal == Ended(Looping("", <<>>, {}, <<>>), "none", FALSE)

\* the application has started: initializeDatabase has run
InitShellIdle ==
  /\ database = Opened(NoDatabase, TRUE)
  /\ editor = [mounted |-> TRUE, episode |-> NoEpisode, inFlight |-> <<>>]
  /\ debounced = [timeout |-> NoTimer, timers |-> {}]
  /\ campaignEpisodes = <<>>

InitGraphIdle ==
  /\ scenes = <<>>
  /\ brokenLinks = <<>>
  /\ unreachableScenes = [threw |-> FALSE, value |-> <<>>]
  /\ traversal = NoTraversal
  /\ InitShellIdle

Init == InitStore /\ InitGraphIdle

UnknownSnapshot == SnapshotId("e1", 0)

Next ==
  \/ \E e \in SaveInputs, f \in Faults :
       SaveEpisode(e, f) /\ last' = Brief("saveEpisode", saveEpisode(e, f))
  \/ \E t \in ImportInputs, f \in Faults :
       ImportEpisodeFromJSON(t, f) /\ last' = Brief("importEpisodeFromJSON", importEpisodeFromJSON(t, f))
  \/ \E id \in EpisodeIds \cup {""}, f \in Faults :
       DeleteEpisode(id, f) /\ last' = Brief("deleteEpisode", deleteEpisode(id, f))
  \/ \E s \in DOMAIN snapshots \cup {UnknownSnapshot, NoSnapshot}, f \in Faults :
       RestoreEpisodeFromSnapshot(s, f)
         /\ last' = Brief("restoreEpisodeFromSnapshot", restoreEpisodeFromSnapshot(s, f))
  \/ Tick(MaxTime) /\ last' = Ticked

Spec == Init /\ [][Next]_vars

----
(* Deleting an episode that has auto-save and manual snapshots, next to   *)
(* another episode; only the delete meets storage failures                *)

Healthy == {"none"}

CascadeSaveInputs == { Episode("e1", "Alpha", ValidScenes) }

CascadeImportInputs == { JSONstringify(Episode("e2", "Alpha", ValidScenes)) }

NextCascade ==
  \/ \E e \in CascadeSaveInputs, f \in Healthy :
       SaveEpisode(e, f) /\ last' = Brief("saveEpisode", saveEpisode(e, f))
  \/ \E t \in CascadeImportInputs, f \in Healthy :
       ImportEpisodeFromJSON(t, f) /\ last' = Brief("importEpisodeFromJSON", importEpisodeFromJSON(t, f))
  \/ \E id \in {"e1"} :
       CreateManualSnapshotRead(id) /\ last' = IF id \in DOMAIN episodes THEN last ELSE NotFound
  \/ \E f \in Healthy :
       CreateManualSnapshotAdd(f)
         /\ last' = Brief("createManualSnapshot", createManualSnapshot(manual.episodeId, manual.episode, f))
  \/ \E id \in EpisodeIds \cup {""}, f \in Faults :
       DeleteEpisode(id, f) /\ last' = Brief("deleteEpisode", deleteEpisode(id, f))
  \/ Tick(MaxTime) /\ last' = Ticked

SpecCascade == Init /\ [][NextCascade]_vars

----
(* Repeated saves of one episode that holds a manual snapshot, long       *)
(* enough for the cleanup to delete auto-saves                            *)

AutoSnapshot(episode, ms) ==
  [id |-> SnapshotId(episode.id, ms),
   episodeId |-> episode.id,
   data |-> JSONstringify([episode EXCEPT !.lastModified = ms]),
   timestamp |-> ms,
   type |-> "auto-save"]

ManualSnapshot(episode, stamp, ms) ==
  [id |-> ManualSnapshotId(episode.id, ms),
   episodeId |-> episode.id,
   data |-> JSONstringify([episode EXCEPT !.lastModified = stamp]),
   timestamp |-> ms,
   type |-> "manual-save"]

RetentionEpisode == Episode("e1", "Alpha", ValidScenes)

\* the stores after saveEpisode and then createManualSnapshot of one episode
\* in the first millisecond
InitRetention ==
  /\ episodes = Put(EmptyStore, [RetentionEpisode EXCEPT !.lastModified = 1])
  /\ snapshots = Put(Put(EmptyStore, AutoSnapshot(RetentionEpisode, 1)),
                     ManualSnapshot(RetentionEpisode, 1, 1))
  /\ campaigns = EmptyStore
  /\ now = 1
  /\ last = Nothing
  /\ manual = NoManual
  /\ backup = NoBackup
  /\ InitGraphIdle

NextRetention ==
  \/ \E e \in {RetentionEpisode}, f \in {"none", "later"} :
       SaveEpisode(e, f) /\ last' = Brief("saveEpisode", saveEpisode(e, f))
  \/ Tick(MaxTimeRetention) /\ last' = Ticked

SpecRetention == InitRetention /\ [][NextRetention]_vars

----
(* Saves and imports of valid and structurally invalid records on a       *)
(* healthy storage, within one millisecond                                *)

NextValidation ==
  \/ \E e \in ValidationInputs :
       SaveEpisode(e, "none") /\ last' = Settled("saveEpisode", saveEpisode(e, "none"), e)
  \/ \E e \in ValidationInputs :
       /\ ImportEpisodeFromJSON(JSONstringify(e), "none")
       /\ last' = Settled("importEpisodeFromJSON", importEpisodeFromJSON(JSONstringify(e), "none"), e)
  \/ \E c \in CampaignValidationInputs :
       SaveCampaign(c, "none") /\ last' = SettledCampaign("saveCampaign", saveCampaign(c, "none"), c)
  \/ \E c \in CampaignValidationInputs :
       /\ ImportCampaignFromJSON(JSONstringify(c), "none")
       /\ last' = SettledCampaign("importCampaignFromJSON",
                                  importCampaignFromJSON(JSONstringify(c), "none"), c)

SpecValidation == Init /\ [][NextValidation]_vars

----
(* Every operation of the engine, episodes and campaigns together, on a   *)
(* healthy or failing storage; the callers' view is not recorded          *)

NextAll ==
  \/ \E e \in CascadeSaveInputs, f \in Faults : SaveEpisode(e, f) /\ UNCHANGED last
  \/ \E t \in ImportInputs, f \in Faults : ImportEpisodeFromJSON(t, f) /\ UNCHANGED last
  \/ \E id \in EpisodeIds, f \in Faults : DeleteEpisode(id, f) /\ UNCHANGED last
  \/ \E s \in DOMAIN snapshots, f \in Faults : RestoreEpisodeFromSnapshot(s, f) /\ UNCHANGED last
  \/ \E id \in {"e1"} : CreateManualSnapshotRead(id) /\ UNCHANGED last
  \/ \E f \in {"none", "first"} : CreateManualSnapshotAdd(f) /\ UNCHANGED last
  \/ \E c \in CampaignInputs, f \in Faults : SaveCampaign(c, f) /\ UNCHANGED last
  \/ \E t \in CampaignImportInputs, f \in Faults : ImportCampaignFromJSON(t, f) /\ UNCHANGED last
  \/ \E id \in {"c1"}, f \in Faults : DeleteCampaign(id, f) /\ UNCHANGED last
  \/ \E b \in BackupInputs : RestoreFromBackupBegin(b) /\ UNCHANGED last
  \/ \E f \in Faults : RestoreFromBackupStep(f) /\ UNCHANGED last
  \/ Tick(MaxTime) /\ UNCHANGED last

SpecAll == Init /\ [][NextAll]_vars

----
(* Exports, and imports of the text the last export handed back, of valid *)
(* and structurally invalid records and of scenes with array-index ids    *)

IndexKeyScenes ==
  << Entry("start", Scene("start", "Start", Arr(<<"p1", "p2">>), Arr(<<Choice("on", "2"), Choice("stay", "start")>>))),
     Entry("2", Scene("2", "Two", Arr(<<"q">>), Arr(<<Choice("on", "1")>>))),
     Entry("1", Scene("1", "One", Arr(<<"r">>), Arr(<<Choice("back", "start")>>))) >>

RoundTripInputs ==
  { Episode("e1", "Alpha", ValidScenes),
    Episode("e1", "", ValidScenes),
    Episode("e2", "Beta", IndexKeyScenes) }

RoundTripCampaigns ==
  { Campaign("c1", "Saga", <<CampaignEpisode("First", "D", Num(1)), CampaignEpisode("Second", "D", Num(2))>>),
    Campaign("c1", "Saga", <<>>) }

NextRoundTrip ==
  \/ \E e \in RoundTripInputs :
       SaveEpisode(e, "none") /\ last' = Brief("saveEpisode", saveEpisode(e, "none"))
  \/ \E c \in RoundTripCampaigns :
       SaveCampaign(c, "none") /\ last' = SettledCampaign("saveCampaign", saveCampaign(c, "none"), NoCampaign)
  \/ \E id \in EpisodeIds :
       ExportStep /\ last' = SettledExport("exportEpisodeToJSON", id, exportEpisodeToJSON(id))
  \/ \E id \in {"c1"} :
       ExportStep /\ last' = SettledExport("exportCampaignToJSON", id, exportCampaignToJSON(id))
  \/ \E f \in {"none", "later"} :
       /\ last.op = "exportEpisodeToJSON" /\ last.result = "resolved"
       /\ ImportEpisodeFromJSON(last.input, f)
       /\ last' = Settled("importEpisodeFromJSON", importEpisodeFromJSON(last.input, f), last.input)
  \/ \E f \in {"none", "first"} :
       /\ last.op = "exportCampaignToJSON" /\ last.result = "resolved"
       /\ ImportCampaignFromJSON(last.input, f)
       /\ last' = SettledCampaign("importCampaignFromJSON", importCampaignFromJSON(last.input, f), last.input)
  \/ Tick(MaxTime) /\ UNCHANGED last

SpecRoundTrip == Init /\ [][NextRoundTrip]_vars

----
(* Saves, imports and restores that meet a stored record of the same id   *)
(* with another content, for episodes and campaigns                       *)

UpsertImports == { JSONstringify(Episode("e1", "Gamma", ValidScenes)) }

NextUpsert ==
  \/ \E e \in SaveInputs, f \in {"none", "later"} :
       SaveEpisode(e, f) /\ last' = Brief("saveEpisode", saveEpisode(e, f))
  \/ \E t \in UpsertImports, f \in Healthy :
       ImportEpisodeFromJSON(t, f) /\ last' = Brief("importEpisodeFromJSON", importEpisodeFromJSON(t, f))
  \/ \E s \in DOMAIN snapshots :
       RestoreEpisodeFromSnapshot(s, "none")
         /\ last' = Brief("restoreEpisodeFromSnapshot", restoreEpisodeFromSnapshot(s, "none"))
  \/ \E c \in RoundTripCampaigns, f \in Healthy :
       SaveCampaign(c, f) /\ last' = SettledCampaign("saveCampaign", saveCampaign(c, f), NoCampaign)
  \/ \E t \in CampaignImportInputs :
       /\ ImportCampaignFromJSON(t, "none")
       /\ last' = SettledCampaign("importCampaignFromJSON", importCampaignFromJSON(t, "none"), NoCampaign)
  \/ Tick(MaxTime) /\ last' = Ticked

SpecUpsert == Init /\ [][NextUpsert]_vars

----
(* Calls that are handed what they cannot work on: texts that are no JSON *)
(* or no valid record, and ids that key nothing, on a healthy storage     *)

\* a campaign whose entry refers to episode e1
LinkedCampaigns ==
  { Campaign("c1", "Saga", <<[CampaignEpisode("First", "D", Num(1)) EXCEPT !.episodeId = "e1"]>>) }

NextRefusal ==
  \/ \E e \in CascadeSaveInputs :
       SaveEpisode(e, "none") /\ last' = Settled("saveEpisode", saveEpisode(e, "none"), NoEpisode)
  \/ \E c \in CampaignInputs \cup LinkedCampaigns :
       SaveCampaign(c, "none") /\ last' = SettledCampaign("saveCampaign", saveCampaign(c, "none"), NoCampaign)
  \/ \E t \in ImportInputs :
       /\ ImportEpisodeFromJSON(t, "none")
       /\ last' = Settled("importEpisodeFromJSON", importEpisodeFromJSON(t, "none"), NoEpisode)
  \/ \E t \in CampaignImportInputs :
       /\ ImportCampaignFromJSON(t, "none")
       /\ last' = SettledCampaign("importCampaignFromJSON", importCampaignFromJSON(t, "none"), NoCampaign)
  \/ \E id \in EpisodeIds \cup {""} :
       DeleteEpisode(id, "none") /\ last' = Settled("deleteEpisode", deleteEpisode(id, "none"), NoEpisode)
  \/ \E id \in {"c1", "c2", ""} :
       DeleteCampaign(id, "none") /\ last' = SettledCampaign("deleteCampaign", deleteCampaign(id, "none"), NoCampaign)
  \/ \E s \in DOMAIN snapshots \cup {UnknownSnapshot, NoSnapshot} :
       /\ RestoreEpisodeFromSnapshot(s, "none")
       /\ last' = Settled("restoreEpisodeFromSnapshot", restoreEpisodeFromSnapshot(s, "none"), NoEpisode)
  \/ Tick(MaxTime) /\ last' = Ticked

SpecRefusal == Init /\ [][NextRefusal]_vars

----
(* A backup of the whole database restored on the store it was taken from *)
(* or on an empty one, by the engine or by the dashboard, storage healthy *)

BackupSaveInputs ==
  { Episode("e1", "Alpha", ValidScenes),
    Episode("e2", "", IndexKeyScenes) }

NextBackup ==
  \/ \E e \in BackupSaveInputs :
       /\ ~backup.active
       /\ SaveEpisode(e, "none") /\ last' = Brief("saveEpisode", saveEpisode(e, "none"))
  \/ \E c \in LinkedCampaigns :
       /\ ~backup.active
       /\ SaveCampaign(c, "none")
       /\ last' = SettledCampaign("saveCampaign", saveCampaign(c, "none"), NoCampaign)
  \/ /\ ~backup.active
     /\ ExportStep
     /\ last' = SettledExport("backupAllData", "", Exported("resolved", <<>>, backupAllData))
  \/ ~backup.active /\ last.op = "backupAllData" /\ FreshStore /\ UNCHANGED last
  \/ last.op = "backupAllData" /\ RestoreFromBackupBegin(last.input) /\ UNCHANGED last
  \/ \E confirmed \in BOOLEAN :
       last.op = "backupAllData" /\ HandleBackupFileChangeBegin(last.input, confirmed) /\ UNCHANGED last
  \/ RestoreFromBackupStep("none") /\ UNCHANGED last
  \/ HandleBackupFileChangeStep("none") /\ UNCHANGED last
  \/ Tick(MaxTime) /\ UNCHANGED last

SpecBackup == Init /\ [][NextBackup]_vars

----
(* The database opened by the start of the application, by a call of the  *)
(* engine or by the connection test, and deleted from the debug panel     *)

Rejected(op) == [Nothing EXCEPT !.op = op, !.result = "rejected"]

NextSchema ==
  \/ InitializeDatabase /\ last' = [Nothing EXCEPT !.op = "initializeDatabase"]
  \/ CheckDatabaseConnection
       /\ last' = [Nothing EXCEPT !.op = "checkDatabaseConnection", !.committed = checkDatabaseConnection]
  \/ \E e \in BackupSaveInputs :
       \/ /\ {"episodes", "snapshots"} \subseteq database.stores
          /\ SaveEpisode(e, "none") /\ last' = Brief("saveEpisode", saveEpisode(e, "none"))
       \/ GetDatabaseWithoutStores({"episodes", "snapshots"}) /\ last' = Rejected("saveEpisode")
  \/ \E c \in LinkedCampaigns :
       \/ /\ "campaigns" \in database.stores
          /\ SaveCampaign(c, "none")
          /\ last' = SettledCampaign("saveCampaign", saveCampaign(c, "none"), NoCampaign)
       \/ GetDatabaseWithoutStores({"campaigns"}) /\ last' = Rejected("saveCampaign")
  \/ ResetDatabase /\ last' = [Nothing EXCEPT !.op = "deleteDatabase"]
  \/ Tick(MaxTime) /\ last' = Ticked

SpecSchema == Init /\ [][NextSchema]_vars

----
(* The episode editor from its first edit to after its unmount          *)

\* the states handleMetadataChange and handleScenesChange bring about: a
\* valid episode, one with a blank title, one with a broken link and one
\* with a scene no choice leads to
EditedEpisodes ==
  { Episode("e1", "Alpha", ValidScenes),
    Episode("e1", "", ValidScenes),
    Episode("e1", "Alpha", OneScene(Scene("start", "Start", Arr(<<"p">>), Arr(<<Choice("go", "ghost")>>)))),
    Episode("e1", "Alpha", ValidScenes \o <<Entry("island", Scene("island", "Island", Arr(<<"p">>), Arr(<<>>)))>>) }

NextAutoSave ==
  \/ \E e \in EditedEpisodes : now + Wait <= MaxTimeAutoSave /\ SetEpisode(e)
  \/ \E handle \in debounced.timers : Later(handle)
  \/ AutoSaveSettles("none")
  \/ Unmount
  \/ Tick(MaxTimeAutoSave) /\ UNCHANGED last

\* the editor under its edits and its three buttons, the auto-save left out
NextEditor ==
  \/ \E e \in EditedEpisodes : SetEpisode(e)
  \/ Tick(MaxTime) /\ UNCHANGED last
  \/ /\ Cardinality({k \in DOMAIN snapshots : snapshots[k].type = "manual-save"}) < MaxManual
     /\ HandleSave
  \/ HandleSaveReads
  \/ CreateManualSnapshotAdd("none") /\ UNCHANGED last
  \/ HandleExport
  \/ HandleTestClick

SpecEditor == Init /\ [][NextEditor]_vars

SpecManager == Init /\ [][NextManager]_vars

SpecAutoSave ==
  Init /\ [][NextAutoSave]_vars
    /\ WF_vars(Tick(MaxTimeAutoSave) /\ UNCHANGED last)
    /\ WF_vars(\E handle \in debounced.timers : Later(handle))
    /\ WF_vars(AutoSaveSettles("none"))

----
(* Saves, manual snapshots, restores and deletes of two episodes, one of   *)
(* them in two revisions, on a storage that does not fail;                *)
(* createManualSnapshot runs as its two transactions                      *)

RacingEpisodes ==
  { Episode("e1", "Alpha", ValidScenes),
    Episode("e1", "Revised", ValidScenes),
    Episode("e2", "Beta", ValidScenes) }

NextRacing ==
  \/ \E e \in RacingEpisodes :
       SaveEpisode(e, "none") /\ last' = Settled("saveEpisode", saveEpisode(e, "none"), e)
  \/ \E id \in {"e1"} :
       CreateManualSnapshotRead(id) /\ last' = IF id \in DOMAIN episodes THEN last ELSE NotFound
  \/ /\ CreateManualSnapshotAdd("none")
     /\ last' = Settled("createManualSnapshot",
                        createManualSnapshot(manual.episodeId, manual.episode, "none"), NoEpisode)
  \/ \E id \in {"e1", "e2"} :
       DeleteEpisode(id, "none") /\ last' = Settled("deleteEpisode", deleteEpisode(id, "none"), NoEpisode)
  \/ \E s \in DOMAIN snapshots :
       /\ RestoreEpisodeFromSnapshot(s, "none")
       /\ last' = Settled("restoreEpisodeFromSnapshot", restoreEpisodeFromSnapshot(s, "none"), NoEpisode)
  \/ Tick(MaxTime) /\ last' = Ticked

SpecRacing == Init /\ [][NextRacing]_vars

----
(* The same with a storage that fails under a record of the restore       *)

NextIsolation ==
  \/ NextBackup
  \/ \E f \in {"first", "later"} : RestoreFromBackupStep(f) /\ UNCHANGED last
  \/ \E f \in {"first", "later"} : HandleBackupFileChangeStep(f) /\ UNCHANGED last

SpecIsolation == Init /\ [][NextIsolation]_vars

----
(* The scene builder: an episode is opened from the store and edited, and *)
(* every change of the scenes runs the two analysers again                *)

SceneOf(id, targets) ==
  Scene(id, "T", Arr(<<"p">>), Arr([i \in 1..Len(targets) |-> Choice("go", targets[i])]))

\* createNewEpisodeTemplate().scenes
TemplateScenes ==
  << Entry("start", Scene("start", "Starting Location", Arr(<<"p1", "p2">>),
                          Arr(<<Choice("first choice", "scene-two")>>))),
     Entry("scene-two", Scene("scene-two", "Second Scene", Arr(<<"p">>),
                              Arr(<<Choice("Go back to start", "start")>>))) >>

\* a template whose second scene leads on to a scene that is not there
createNewEpisodeTemplate_Dangling(id) ==
  Episode(id, "New Episode",
          SpreadWith(TemplateScenes, "scene-two",
                     Scene("scene-two", "Second Scene", Arr(<<"p">>),
                           Arr(<<Choice("Go on", "scene-three")>>))))

\* createNewEpisodeTemplate() when generateId("ep-") gives id
createNewEpisodeTemplate(id) == Episode(id, "New Episode", TemplateScenes)

\* the ids generateId("ep-") hands out
GeneratedEpisodeIds == {"ep-a", "ep-b"}

\* the spec's example
GhostScenes == << Entry("start", SceneOf("start", <<"ghost">>)) >>

\* the scenes of imported documents, in the order of the document
StoredScenes ==
  { TemplateScenes,
    GhostScenes,
    << Entry("start", SceneOf("start", <<"2", "start">>)),
       Entry("2", SceneOf("2", <<"1">>)),
       Entry("1", SceneOf("1", <<>>)) >>,
    << Entry("start", SceneOf("start", <<"constructor">>)),
       Entry("constructor", SceneOf("constructor", <<"start">>)) >>,
    << Entry("a", SceneOf("a", <<"a">>)) >> }

\* the ids generateId("scene-") hands out
GeneratedIds == {"scene-a"}

Links(obj) == Len(Flatten([i \in 1..Len(obj) |-> NextScenes(obj[i].scene)]))

\* the effect on [scenes] of scene-builder.tsx
Analyse(updated) ==
  /\ scenes' = updated
  /\ brokenLinks' = findBrokenLinks(updated)
  /\ unreachableScenes' = findUnreachableScenes(updated)
  /\ UNCHANGED <<storeVars, traversal, shellVars>>

\* the builder is mounted and its effect has not thrown
Editing == scenes # <<>> /\ ~unreachableScenes.threw

\* getEpisode hands over a structured clone of the stored record, whose
\* properties are created in the order Object.entries lists them
OpenEpisode(stored) == Analyse(ObjectEntries(stored))

\* the editor is opened without an episode id, or with one that is not stored
CreateNewEpisode(id) == Analyse(createNewEpisodeTemplate(id).scenes)

HandleAddScene(newSceneId) ==
  /\ Editing
  /\ newSceneId \notin KeySet(scenes)
  /\ Links(scenes) < MaxLinks
  /\ Analyse(SpreadWith(scenes, newSceneId,
                        Scene(newSceneId, "New Scene", Arr(<<"p">>), Arr(<<Choice("Continue", "start")>>))))

HandleDeleteScene(sceneId) ==
  /\ Editing
  /\ sceneId \in KeySet(scenes)
  /\ sceneId # "start"
  /\ Analyse(SpreadWithout(scenes, sceneId))

HandleAddChoice(sceneId) ==
  /\ Editing
  /\ sceneId \in KeySet(scenes)
  /\ Links(scenes) < MaxLinks
  /\ LET scene == Get(scenes, sceneId).scene
     IN Analyse(SpreadWith(scenes, sceneId,
          [scene EXCEPT !.choices = Arr(Append(scene.choices.items, Choice("New choice", "start")))]))

HandleDeleteChoice(sceneId, choiceIndex) ==
  /\ Editing
  /\ sceneId \in KeySet(scenes)
  /\ LET scene == Get(scenes, sceneId).scene
         items == scene.choices.items
     IN /\ choiceIndex + 1 \in 1..Len(items)
        /\ Analyse(SpreadWith(scenes, sceneId,
             [scene EXCEPT !.choices =
                Arr([i \in 1..(Len(items) - 1) |-> IF i <= choiceIndex THEN items[i] ELSE items[i + 1]])]))

\* the select offers the ids of the scenes there are
HandleChoiceChange(sceneId, choiceIndex, value) ==
  /\ Editing
  /\ sceneId \in KeySet(scenes)
  /\ value \in KeySet(scenes)
  /\ LET scene == Get(scenes, sceneId).scene
         items == scene.choices.items
     IN /\ choiceIndex + 1 \in 1..Len(items)
        /\ Analyse(SpreadWith(scenes, sceneId,
             [scene EXCEPT !.choices =
                Arr([items EXCEPT ![choiceIndex + 1] = [@ EXCEPT !.nextScene = value]])]))

\* the longest scene title a duplicate is made of
MaxTitle == 24

HandleDuplicateScene(sceneId, newSceneId) ==
  /\ Editing
  /\ sceneId \in KeySet(scenes)
  /\ newSceneId \notin KeySet(scenes)
  /\ LET sourceScene == Get(scenes, sceneId).scene
     IN /\ Links(scenes) + Len(sourceScene.choices.items) <= MaxLinks
        /\ Len(sourceScene.title) + 7 <= MaxTitle
        /\ Analyse(SpreadWith(scenes, newSceneId,
             [sourceScene EXCEPT !.id = newSceneId, !.title = sourceScene.title \o " (Copy)"]))

\* the Scene ID input is disabled while the start scene is the active one;
\* the scene stays under the key it has
HandleSceneChange(sceneId, field, value) ==
  /\ Editing
  /\ sceneId \in KeySet(scenes)
  /\ field = "id" => sceneId # "start"
  /\ LET updatedScene == [Get(scenes, sceneId).scene EXCEPT ![field] = value]
     IN Analyse(SpreadWith(scenes, sceneId, updatedScene))

\* splitIntoParagraphs: the pieces of a text between its blank lines; text is
\* given as these pieces
splitIntoParagraphs(text) == text

\* a text that trims to nothing gives one empty paragraph
HandleTextChange(sceneId, text) ==
  /\ Editing
  /\ sceneId \in KeySet(scenes)
  /\ LET paragraphs == IF \A i \in 1..Len(text) : IsBlank(text[i])
                       THEN <<"">>
                       ELSE splitIntoParagraphs(text)
         updatedScene == [Get(scenes, sceneId).scene EXCEPT !.text = Arr(paragraphs)]
     IN Analyse(SpreadWith(scenes, sceneId, updatedScene))

SceneIds == {"start", "scene-two", "scene-a", "a", "1", "2", "constructor"}

NextGraph ==
  \/ \E stored \in StoredScenes : OpenEpisode(stored)
  \/ \E id \in GeneratedEpisodeIds : CreateNewEpisode(id)
  \/ \E id \in GeneratedIds : HandleAddScene(id)
  \/ \E id \in SceneIds : HandleDeleteScene(id)
  \/ \E id \in SceneIds : HandleAddChoice(id)
  \/ \E id \in SceneIds, i \in 0..(MaxLinks - 1) : HandleDeleteChoice(id, i)
  \/ \E id \in SceneIds, i \in 0..(MaxLinks - 1), v \in SceneIds : HandleChoiceChange(id, i, v)

SpecGraph == Init /\ [][NextGraph]_vars

----
(* Every operation of the scene builder on an episode of one scene        *)

\* the ids generateId("scene-") hands out to the builder
BuilderIds == {"scene-a"}

\* what is typed into the Scene ID and Scene Title inputs
TypedValues == {"start", "renamed"}

\* what is typed into the scene text, as the pieces between blank lines
TypedTexts == { <<" ">>, <<"p", "q">> }

NextBuilder ==
  \/ OpenEpisode(OneScene(SceneOf("start", <<>>)))
  \/ \E id \in BuilderIds : HandleAddScene(id)
  \/ \E id \in KeySet(scenes), new \in BuilderIds : HandleDuplicateScene(id, new)
  \/ \E id \in KeySet(scenes) : HandleDeleteScene(id)
  \/ \E id \in KeySet(scenes), field \in {"id", "title"}, v \in TypedValues :
       HandleSceneChange(id, field, v)
  \/ \E id \in KeySet(scenes), text \in TypedTexts : HandleTextChange(id, text)
  \/ \E id \in KeySet(scenes) : HandleAddChoice(id)
  \/ \E id \in KeySet(scenes), i \in 0..(MaxLinks - 1) : HandleDeleteChoice(id, i)
  \/ \E id \in KeySet(scenes), i \in 0..(MaxLinks - 1), v \in KeySet(scenes) :
       HandleChoiceChange(id, i, v)

SpecBuilder == Init /\ [][NextBuilder]_vars

----
(* One call of isSceneReachable at a time, a pass of its loop per step,   *)
(* on graphs with cycles, self-loops, dangling targets and no start scene *)

TraversalScenes ==
  { GhostScenes,
    << Entry("start", SceneOf("start", <<"a">>)),
       Entry("a", SceneOf("a", <<"b">>)),
       Entry("b", SceneOf("b", <<"a">>)) >>,
    << Entry("start", SceneOf("start", <<"a", "b">>)),
       Entry("a", SceneOf("a", <<"b", "a">>)),
       Entry("b", SceneOf("b", <<"start", "ghost">>)),
       Entry("c", SceneOf("c", <<"c">>)) >>,
    << Entry("start", SceneOf("start", <<"start", "constructor">>)) >>,
    << Entry("a", SceneOf("a", <<"a">>)) >> }

TraversalIds == {"start", "scene-two", "a", "b", "c", "ghost", "constructor"}

InitTraversal ==
  /\ InitStore
  /\ scenes \in TraversalScenes
  /\ brokenLinks = findBrokenLinks(scenes)
  /\ unreachableScenes = findUnreachableScenes(scenes)
  /\ traversal = NoTraversal
  /\ InitShellIdle

CallIsSceneReachable(sceneId) ==
  /\ traversal.status # "running"
  /\ traversal' = Entered(sceneId)
  /\ UNCHANGED <<storeVars, scenes, brokenLinks, unreachableScenes, shellVars>>

WhileIteration ==
  /\ traversal.status = "running"
  /\ traversal' = Iteration(scenes, traversal)
  /\ UNCHANGED <<storeVars, scenes, brokenLinks, unreachableScenes, shellVars>>

NextTraversal ==
  \/ \E id \in GeneratedEpisodeIds : traversal.status # "running" /\ CreateNewEpisode(id)
  \/ \E id \in TraversalIds : CallIsSceneReachable(id)
  \/ WhileIteration

\* a call that has entered its loop goes on running: nothing else runs on
\* the thread
SpecTraversal == InitTraversal /\ [][NextTraversal]_vars /\ WF_vars(WhileIteration)

----
(* Claims on the episode store *)

\* the step is the call of op that settled as o
Did(op, o) == last'.op = op /\ last' = Brief(op, o)

SnapshotsOf(store, episodeId) == {k \in DOMAIN store : store[k].episodeId = episodeId}

\* C1: a saveEpisode call writes the stamped episode record and its new
\* auto-save snapshot together or writes nothing at all, whatever request of
\* its transaction fails; a call that is rejected leaves the episodes as
\* they were.
AtomicSave ==
  [][\A e \in SaveInputs, f \in Faults :
       (Did("saveEpisode", saveEpisode(e, f)) /\ SaveEpisode(e, f)) =>
         LET o == saveEpisode(e, f)
             stored == [e EXCEPT !.lastModified = now]
             snap == SnapshotId(e.id, now)
             both == /\ e.id \in DOMAIN episodes'
                     /\ episodes'[e.id] = stored
                     /\ snap \in DOMAIN snapshots' \ DOMAIN snapshots
                     /\ snapshots'[snap].episodeId = e.id
                     /\ snapshots'[snap].data = JSONstringify(stored)
             neither == episodes' = episodes /\ snapshots' = snapshots
         IN /\ both \/ neither
            /\ o.result = "rejected" => neither
            /\ o.committed <=> both]_vars

\* a save whose snapshot insert failed after its put: it resolved, and the
\* store holds neither the record nor a snapshot of the episode
AbortedSaveLeftNothing ==
  /\ last.op = "saveEpisode"
  /\ last.result = "resolved"
  /\ ~last.committed
  /\ last.id \notin DOMAIN episodes
  /\ SnapshotsOf(snapshots, last.id) = {}

\* C2: every saveEpisode call that resolves has inserted exactly one new
\* snapshot, of type "auto-save", of the saved episode and holding the
\* serialization of the record the call stored.
ResolvedSaveInsertedSnapshot ==
  [][\A e \in SaveInputs, f \in Faults :
       (Did("saveEpisode", saveEpisode(e, f)) /\ SaveEpisode(e, f)
          /\ saveEpisode(e, f).result = "resolved") =>
         \E k \in DOMAIN snapshots' :
           /\ DOMAIN snapshots' \ DOMAIN snapshots = {k}
           /\ snapshots'[k].type = "auto-save"
           /\ snapshots'[k].episodeId = e.id
           /\ e.id \in DOMAIN episodes'
           /\ episodes'[e.id] = [e EXCEPT !.lastModified = now]
           /\ snapshots'[k].data = JSONstringify(episodes'[e.id])]_vars

AutoSavesOf(store, episodeId) ==
  {k \in SnapshotsOf(store, episodeId) : store[k].type = "auto-save"}

ManualSavesOf(store, episodeId) ==
  {k \in SnapshotsOf(store, episodeId) : store[k].type = "manual-save"}

\* the spec's example: 15 auto-saves (ms 1..15) and 3 manual snapshots of
\* one episode
ExampleStore ==
  [k \in {SnapshotId("e1", t) : t \in 1..15} \cup {ManualSnapshotId("e1", t) : t \in {2, 7, 15}} |->
     IF k[2] = "" THEN AutoSnapshot(RetentionEpisode, k[3])
     ELSE ManualSnapshot(RetentionEpisode, k[3], k[3])]

\* one further save, in ms 16, leaves 13 snapshots: the auto-saves of ms
\* 7..16 and the 3 manual ones
RetentionExample ==
  LET after == cleanupSnapshots(Put(ExampleStore, AutoSnapshot(RetentionEpisode, 16)), "e1")
  IN /\ Cardinality(DOMAIN after) = 13
     /\ AutoSavesOf(after, "e1") = {SnapshotId("e1", t) : t \in 7..16}
     /\ ManualSavesOf(after, "e1") = ManualSavesOf(ExampleStore, "e1")

\* C3: after a saveEpisode(e) that resolves, the snapshots of e.id are the
\* manual snapshots it had before, unchanged, and the ten auto-saves with
\* the newest timestamps among the earlier ones and the one just inserted
\* (all of them when there are at most ten); every auto-save that went is
\* older than every auto-save that stayed.  The spec's example, 15 auto-saves
\* and 3 manual snapshots, ends with 13 snapshots.
RetentionKeepsNewestTen ==
  [][/\ RetentionExample
     /\ \A e \in {RetentionEpisode}, f \in {"none", "later"} :
          (Did("saveEpisode", saveEpisode(e, f)) /\ SaveEpisode(e, f)
             /\ saveEpisode(e, f).result = "resolved") =>
            LET inserted == {SnapshotId(e.id, now)} \cap (DOMAIN snapshots' \ DOMAIN snapshots)
                candidates == AutoSavesOf(snapshots, e.id) \cup inserted
                kept == AutoSavesOf(snapshots', e.id)
                gone == candidates \ kept
                stamp(k) == IF k \in DOMAIN snapshots THEN snapshots[k].timestamp ELSE now
            IN /\ ManualSavesOf(snapshots', e.id) = ManualSavesOf(snapshots, e.id)
               /\ kept \subseteq candidates
               /\ Cardinality(kept) = IF Cardinality(candidates) > 10 THEN 10
                                      ELSE Cardinality(candidates)
               /\ \A g \in gone, k \in kept : stamp(g) < stamp(k)
               /\ \A k \in SnapshotsOf(snapshots', e.id) \cap DOMAIN snapshots :
                    snapshots'[k] = snapshots[k]]_vars

\* a committed save whose cleanup deleted the oldest auto-save while the
\* manual snapshot, older than every auto-save left, stayed
CleanupDeletedOldestAutoSave ==
  /\ last.op = "saveEpisode"
  /\ last.committed
  /\ last.removed >= 1
  /\ Cardinality(AutoSavesOf(snapshots, last.id)) = 10
  /\ \E m \in ManualSavesOf(snapshots, last.id) :
       \A a \in AutoSavesOf(snapshots, last.id) : snapshots[m].timestamp < snapshots[a].timestamp

\* what a cascade delete of id leaves behind
Cascaded(id) ==
  /\ id \notin DOMAIN episodes'
  /\ SnapshotsOf(snapshots', id) = {}
  /\ DOMAIN episodes' = DOMAIN episodes \ {id}
  /\ \A other \in DOMAIN episodes' : episodes'[other] = episodes[other]
  /\ DOMAIN snapshots' = DOMAIN snapshots \ SnapshotsOf(snapshots, id)
  /\ \A k \in DOMAIN snapshots' : snapshots'[k] = snapshots[k]

\* C4: once deleteEpisode(id) has resolved, no episode record with that id
\* and no snapshot with that episodeId is left, and the records and the
\* snapshots of every other episode are as they were.
CascadeDelete ==
  [][\A id \in EpisodeIds, f \in Faults :
       (Did("deleteEpisode", deleteEpisode(id, f)) /\ DeleteEpisode(id, f)
          /\ deleteEpisode(id, f).result = "resolved") =>
         Cascaded(id)]_vars

\* the same for the calls whose transaction commits, which holds
CascadeDeleteWhenCommitted ==
  [][\A id \in EpisodeIds, f \in Faults :
       (Did("deleteEpisode", deleteEpisode(id, f)) /\ DeleteEpisode(id, f)
          /\ deleteEpisode(id, f).committed) =>
         Cascaded(id)]_vars

\* a delete that removed snapshots of both types while another episode and
\* its snapshot stayed
CascadeDeleted ==
  /\ last.op = "deleteEpisode"
  /\ last.committed
  /\ last.removed >= 2
  /\ last.id \notin DOMAIN episodes
  /\ \E other \in DOMAIN episodes : SnapshotsOf(snapshots, other) # {}

\* C6: a restoreEpisodeFromSnapshot that resolves puts the payload of the
\* snapshot, with lastModified set to the time of the restore, under the
\* payload's id, and changes nothing else: no other episode, no snapshot,
\* no campaign.
RestoreOverwritesInPlace ==
  [][\A s \in DOMAIN snapshots, f \in Faults :
       (Did("restoreEpisodeFromSnapshot", restoreEpisodeFromSnapshot(s, f))
          /\ RestoreEpisodeFromSnapshot(s, f)
          /\ restoreEpisodeFromSnapshot(s, f).result = "resolved") =>
         LET payload == JSONparse(snapshots[s].data).value
         IN /\ DOMAIN episodes' = DOMAIN episodes \cup {payload.id}
            /\ episodes'[payload.id] = [payload EXCEPT !.lastModified = now]
            /\ \A other \in DOMAIN episodes' \ {payload.id} : episodes'[other] = episodes[other]
            /\ snapshots' = snapshots
            /\ campaigns' = campaigns]_vars

\* a restore from an older snapshot over a record with another title
RestoredOlderSnapshot ==
  /\ last.op = "restoreEpisodeFromSnapshot"
  /\ last.result = "resolved"
  /\ last.snap \in DOMAIN snapshots
  /\ snapshots[last.snap].timestamp < now
  /\ episodes[last.id].lastModified = now
  /\ episodes[last.id].title = JSONparse(snapshots[last.snap].data).value.title
  /\ \E k \in SnapshotsOf(snapshots, last.id) :
       /\ snapshots[k].timestamp > snapshots[last.snap].timestamp
       /\ JSONparse(snapshots[k].data).value.title # episodes[last.id].title

----
(* Claims on validation *)

Range(seq) == {seq[i] : i \in 1..Len(seq)}

ChoiceDefects(choice) ==
  {m \in {"Choice text is required"} : IsBlank(choice.text)}
    \cup {m \in {"Next scene is required"} : IsBlank(choice.nextScene)}

SceneDefects(scene) ==
  {m \in {"Scene ID is required"} : IsBlank(scene.id)}
    \cup {m \in {"Scene title is required"} : IsBlank(scene.title)}
    \cup {m \in {"Scene text must be an array"} : ~scene.text.isArray}
    \cup {m \in {"Scene choices must be an array"} : ~scene.choices.isArray}
    \cup UNION {ChoiceDefects(scene.choices.items[i]) : i \in 1..Len(scene.choices.items)}

\* every structural defect of an episode, as the message validateEpisode has
\* for it
AllDefects(episode) ==
  {m \in {"Episode title is required"} : IsBlank(episode.title)}
    \cup {m \in {"Episode must have at least one scene"} : Len(episode.scenes) = 0}
    \cup {m \in {"Episode must have a 'start' scene"} :
            Len(episode.scenes) > 0 /\ "start" \notin KeySet(episode.scenes)}
    \cup UNION {SceneDefects(episode.scenes[i].scene) : i \in 1..Len(episode.scenes)}

ValidationReportsEveryDefect ==
  (last.op = "importEpisodeFromJSON" /\ AllDefects(last.input) # {}) =>
    Range(last.errors) = AllDefects(last.input)

----
(* Claims on the whole engine *)

----
(* Claims on the graph analysis *)

\* the ids that a path of choices from "start" leads to
RECURSIVE PathsFrom(_, _)
PathsFrom(obj, found) ==
  LET next == found \cup UNION {Range(NextScenes(obj[i].scene)) :
                                  i \in {n \in 1..Len(obj) : obj[n].key \in found}}
  IN IF next = found THEN found ELSE PathsFrom(obj, next)

\* the choices whose target is no key of the scenes, by scene in the order
\* the scenes were inserted, then by choice index
ExpectedBrokenLinks(obj) ==
  LET ofScene(entry) ==
        LET targets == NextScenes(entry.scene)
            pairs == [i \in 1..Len(targets) |-> BrokenLink(entry.key, i - 1)]
            isBroken(pair) == targets[pair.choiceIndex + 1] \notin KeySet(obj)
        IN SelectSeq(pairs, isBroken)
  IN Flatten([i \in 1..Len(obj) |-> ofScene(obj[i])])

\* C9: for the scenes the builder holds, findUnreachableScenes returns a
\* list that never holds "start" and that leaves out a scene id exactly
\* when a path of choices leads from "start" to it.
UnreachableScenesCorrect ==
  scenes # <<>> =>
    /\ ~unreachableScenes.threw
    /\ "start" \notin Range(unreachableScenes.value)
    /\ \A k \in KeySet(scenes) :
         k \notin Range(unreachableScenes.value) <=> k \in PathsFrom(scenes, {"start"})

\* C10: for the scenes the builder holds, findBrokenLinks returns the pairs
\* (sceneId, choiceIndex) whose nextScene is no key of the scenes, each
\* once, by scene insertion order and then by choice index; for the scenes
\* {start: [-> "ghost"]} that is [(start, 0)], and nothing is unreachable.
BrokenLinksCorrect ==
  scenes # <<>> =>
    /\ brokenLinks = ExpectedBrokenLinks(scenes)
    /\ scenes = GhostScenes =>
         /\ brokenLinks = <<BrokenLink("start", 0)>>
         /\ unreachableScenes = Returned(<<>>)

\* C11: a call of isSceneReachable that has entered its loop ends, by a
\* return or by a throw, whatever the cycles, self-loops, dangling targets
\* or missing start scene of the graph, and no scene id goes through
\* visited.add twice; the two analysers built on it and on forEach have
\* ended with a result for the same graph.
TraversalEnds ==
  /\ [](\A i, j \in 1..Len(traversal.expanded) :
          traversal.expanded[i] = traversal.expanded[j] => i = j)
  /\ [](Len(brokenLinks) <= Links(scenes) /\ Len(unreachableScenes.value) <= Len(scenes))
  /\ (traversal.status = "running") ~> (traversal.status \in {"returned", "thrown"})

\* the search for a scene that the cycle start -> a -> b -> a does not
\* lead to has ended after expanding the three scenes once each
CycleTraversed ==
  /\ KeySet(scenes) = {"start", "a", "b"}
  /\ traversal.status = "returned"
  /\ traversal.sceneId = "ghost"
  /\ ~traversal.value
  /\ traversal.expanded = <<"start", "a", "b">>

\* C12: the episode createNewEpisodeTemplate returns has a "start" scene,
\* start leads to scene-two and scene-two back to start, it passes
\* validateEpisode, and when the builder holds its scenes the analysers have
\* found no broken link and no unreachable scene.
TemplateValid ==
  \A id \in GeneratedEpisodeIds :
    LET template == createNewEpisodeTemplate(id)
    IN scenes = template.scenes =>
         /\ "start" \in KeySet(scenes)
         /\ NextScenes(Get(scenes, "start").scene) = <<"scene-two">>
         /\ NextScenes(Get(scenes, "scene-two").scene) = <<"start">>
         /\ validateEpisode(template) = <<>>
         /\ brokenLinks = <<>>
         /\ unreachableScenes = Returned(<<>>)

\* the builder holds the scenes of a new episode and has analysed them
TemplateAnalysed ==
  /\ scenes = createNewEpisodeTemplate("ep-a").scenes
  /\ Len(scenes) = 2
  /\ brokenLinks = <<>>
  /\ ~unreachableScenes.threw

----
(* Claims on export and import *)

\* C13: an export right after the import of the text that the export
\* before handed back gives that same text again, scene order, paragraph
\* order and choice order included, for episodes and for campaigns; and no
\* exported text holds lastModified.
RoundTripIdentical ==
  [][/\ (last'.op \in {"exportEpisodeToJSON", "exportCampaignToJSON"} /\ last'.result = "resolved")
          => last'.input.value.lastModified = NoStamp
     /\ (/\ last.op = "importEpisodeFromJSON"
         /\ last'.op = "exportEpisodeToJSON"
         /\ last'.id = last.input.value.id) => (last'.result = "resolved" /\ last'.input = last.input)
     /\ (/\ last.op = "importCampaignFromJSON"
         /\ last'.op = "exportCampaignToJSON"
         /\ last'.id = last.input.value.id) => (last'.result = "resolved" /\ last'.input = last.input)]_vars

\* the exported text of the episode with array-index scene ids was
\* imported a millisecond after the save, and the import has committed
ExportedTextImported ==
  /\ last.op = "importEpisodeFromJSON"
  /\ last.result = "resolved" /\ last.committed
  /\ last.id = "e2"
  /\ Keys(last.input.value.scenes) = <<"1", "2", "start">>
  /\ episodes["e2"].lastModified = 2
  /\ SnapshotId("e2", 1) \in DOMAIN snapshots

\* the write of one record under its id and nothing else
Upserted(before, after, record) ==
  /\ DOMAIN after = DOMAIN before \cup {record.id}
  /\ after[record.id] = [record EXCEPT !.lastModified = now]
  /\ \A k \in DOMAIN before \ {record.id} : after[k] = before[k]

\* C14: a committed saveEpisode, importEpisodeFromJSON or
\* restoreEpisodeFromSnapshot, and a committed saveCampaign or
\* importCampaignFromJSON, leaves under the id of its record that record
\* with its new stamp, in place of the one stored before when there was
\* one, and adds no other record; every record is stored under its own id;
\* and a step that is no committed write changes no record, so that the
\* record of an id is the one of the last committed write for it.
UpsertById ==
  [][/\ \A k \in DOMAIN episodes' : episodes'[k].id = k
     /\ \A k \in DOMAIN campaigns' : campaigns'[k].id = k
     /\ ~last'.committed => (episodes' = episodes /\ campaigns' = campaigns)
     /\ \A e \in SaveInputs, f \in Faults :
          (Did("saveEpisode", saveEpisode(e, f)) /\ SaveEpisode(e, f) /\ last'.committed)
            => Upserted(episodes, episodes', e)
     /\ \A t \in UpsertImports, f \in Faults :
          (/\ Did("importEpisodeFromJSON", importEpisodeFromJSON(t, f))
           /\ ImportEpisodeFromJSON(t, f) /\ last'.committed)
            => Upserted(episodes, episodes', JSONparse(t).value)
     /\ \A s \in DOMAIN snapshots :
          (/\ Did("restoreEpisodeFromSnapshot", restoreEpisodeFromSnapshot(s, "none"))
           /\ RestoreEpisodeFromSnapshot(s, "none") /\ last'.committed)
            => Upserted(episodes, episodes', JSONparse(snapshots[s].data).value)
     /\ \A c \in RoundTripCampaigns :
          (/\ last' = SettledCampaign("saveCampaign", saveCampaign(c, "none"), NoCampaign)
           /\ SaveCampaign(c, "none") /\ last'.committed)
            => Upserted(campaigns, campaigns', c)
     /\ \A t \in CampaignImportInputs :
          (/\ last' = SettledCampaign("importCampaignFromJSON", importCampaignFromJSON(t, "none"), NoCampaign)
           /\ ImportCampaignFromJSON(t, "none") /\ last'.committed)
            => Upserted(campaigns, campaigns', JSONparse(t).value)]_vars

\* an import has replaced the record that a save had stored under the same
\* id, and a save has replaced a campaign
ImportReplacedSavedRecord ==
  /\ last.op = "importEpisodeFromJSON" /\ last.committed /\ last.id = "e1"
  /\ episodes["e1"].title = "Gamma"
  /\ \E k \in SnapshotsOf(snapshots, "e1") : JSONparse(snapshots[k].data).value.title = "Alpha"
  /\ DOMAIN episodes = {"e1"}
  /\ "c1" \in DOMAIN campaigns /\ campaigns["c1"].episodes = <<>> /\ campaigns["c1"].lastModified = 2

----
(* Claims on manual snapshots *)

\* C17: createManualSnapshot reads the record persisted under the episode
\* id and, when it resolves, has inserted exactly one snapshot, of type
\* "manual-save", of that episode, holding the serialization of the record
\* it read; it changes no episode record and deletes no snapshot; when no
\* record is stored under the id it is rejected and inserts nothing.
ManualSnapshotOfPersisted ==
  [][/\ \A id \in EpisodeIds :
          (CreateManualSnapshotRead(id) /\ id \in DOMAIN episodes /\ ~manual.active)
            => manual'.episode = episodes[id]
     /\ \A id \in EpisodeIds :
          (CreateManualSnapshotRead(id) /\ id \notin DOMAIN episodes /\ last' = NotFound)
            => (last'.result = "rejected" /\ ~manual'.active /\ snapshots' = snapshots)
     /\ \A f \in Healthy :
          LET o == createManualSnapshot(manual.episodeId, manual.episode, f)
          IN (manual.active /\ CreateManualSnapshotAdd(f) /\ Did("createManualSnapshot", o))
               => /\ episodes' = episodes
                  /\ \A k \in DOMAIN snapshots : k \in DOMAIN snapshots' /\ snapshots'[k] = snapshots[k]
                  /\ o.result = "resolved" =>
                       \E k \in DOMAIN snapshots' :
                         /\ DOMAIN snapshots' \ DOMAIN snapshots = {k}
                         /\ k = last'.snap
                         /\ snapshots'[k].type = "manual-save"
                         /\ snapshots'[k].episodeId = manual.episodeId
                         /\ snapshots'[k].data = JSONstringify(manual.episode)
                  /\ o.result = "rejected" => snapshots' = snapshots]_vars

\* a manual snapshot of the record as it is persisted, next to the
\* auto-saves of two saves of the episode
ManualSnapshotTaken ==
  /\ last.op = "createManualSnapshot"
  /\ last.result = "resolved"
  /\ snapshots[last.snap].type = "manual-save"
  /\ "e1" \in DOMAIN episodes
  /\ snapshots[last.snap].data = JSONstringify(episodes["e1"])
  /\ Cardinality(AutoSavesOf(snapshots, "e1")) = 2

----
(* Claims on campaigns next to episodes *)

\* C18: a saveCampaign or deleteCampaign call leaves every episode record
\* and every snapshot as it was, and files no snapshot of the campaign; a
\* deleteEpisode call leaves every campaign record as it was, entries that
\* refer to the deleted episode included.
CampaignsApartFromEpisodes ==
  [][/\ last'.op \in {"saveCampaign", "deleteCampaign"} =>
          (episodes' = episodes /\ snapshots' = snapshots)
     /\ last'.op = "deleteEpisode" => campaigns' = campaigns]_vars

\* episode e1 and its snapshots were deleted, and the stored campaign still
\* has the entry that refers to e1
CampaignEntryLeftDangling ==
  /\ last.op = "deleteEpisode" /\ last.committed /\ last.id = "e1"
  /\ last.removed > 0
  /\ "e1" \notin DOMAIN episodes
  /\ "c1" \in DOMAIN campaigns
  /\ campaigns["c1"].episodes[1].episodeId = "e1"

----
(* Claims on the backup of the whole database *)

\* the records of a store are the records of a list, read as JSON.stringify
\* writes them and but for lastModified, and nothing else is stored
Holds(store, records) ==
  /\ DOMAIN store = {records[i].id : i \in DOMAIN records}
  /\ \A i \in DOMAIN records :
       JSONstringify(WithoutLastModified(store[records[i].id]))
         = JSONstringify(WithoutLastModified(records[i]))

\* C19: the document of backupAllData lists every stored episode and every
\* stored campaign. A restore of it on the store it was taken from or on an
\* empty one saves no campaign before the last episode, adds one auto-save
\* snapshot with each episode, and ends on a store whose episodes and
\* campaigns are the records of the document but for lastModified; this
\* holds as well for the second restore of the same document.
BackupRoundTrip ==
  [][/\ (last'.op = "backupAllData" /\ last' # last) =>
          (Holds(episodes, last'.input.episodes) /\ Holds(campaigns, last'.input.campaigns))
     /\ (backup.active /\ backup' # backup) =>
          /\ backup.episodes # <<>> =>
               /\ campaigns' = campaigns
               /\ LET snapshotId == SnapshotId(Head(backup.episodes).id, now)
                  IN /\ snapshotId \notin DOMAIN snapshots
                     /\ snapshotId \in DOMAIN snapshots'
                     /\ snapshots'[snapshotId].type = "auto-save"
          /\ ~backup'.active =>
               /\ Holds(episodes', backup.document.episodes)
               /\ Holds(campaigns', backup.document.campaigns)]_vars

\* C20: each step of a restore that is not at the last record of the backup,
\* whether its save failed or not, leaves the restore going with the records
\* that follow; a step removes no record and changes none but the one it
\* saves.
RestoreIsolatesFailures ==
  [][(backup.active /\ backup' # backup) =>
       /\ Len(backup.episodes) + Len(backup.campaigns) > 1 => backup'.active
       /\ DOMAIN episodes \subseteq DOMAIN episodes'
       /\ DOMAIN campaigns \subseteq DOMAIN campaigns'
       /\ \A id \in DOMAIN episodes :
            (backup.episodes = <<>> \/ id # Head(backup.episodes).id) => episodes'[id] = episodes[id]
       /\ \A id \in DOMAIN campaigns :
            (backup.episodes # <<>> \/ id # Head(backup.campaigns).id) => campaigns'[id] = campaigns[id]]_vars

----
(* Claims on the schema of the database *)

----
(* Claims on the editor's auto-save *)

\* C22: a call of the debounced function sets the one pending timer to wait
\* from now; func is invoked only when the call before it lies wait or more
\* back, with the arguments of that call, and once for the calls since its
\* last invocation; every call is followed by an invocation of func.
TrailingDebounce ==
  /\ [][/\ Cardinality(debounced'.timers) <= 1
        /\ (last' # last /\ last'.op = "debouncedSave") =>
             debounced'.timers = {[due |-> now + Wait, args |-> last'.input]}
        /\ (last' # last /\ last'.op = "func") =>
             /\ last.op = "debouncedSave"
             /\ last'.input = last.input
             /\ last'.at >= last.at + Wait
             /\ debounced'.timers = {}]_vars
  /\ ((last.op = "debouncedSave") ~> (last.op = "func"))

\* func has run for a burst of two calls or more
BurstDebounced ==
  last.op = "func" /\ last.calls = 2 /\ debounced.timers = {}

\* C23: when the analysis of the editor's episode reports a broken link or
\* an unreachable scene, handleSave, handleExport and handleTestClick are
\* refused and write nothing to the store.
AdvisoriesGateEditor ==
  [][(/\ last' # last
      /\ last'.op \in {"handleSave", "handleExport", "handleTestClick"}
      /\ \/ findBrokenLinks(editor.episode.scenes) # <<>>
         \/ findUnreachableScenes(editor.episode.scenes).value # <<>>)
     => (last'.refused /\ episodes' = episodes /\ snapshots' = snapshots)]_vars

\* C25: in an unmounted editor no step starts a write: a timer that fires
\* invokes func, which returns before saveEpisode. The unmount leaves the
\* writes under way and the store as they are, a write under way settles
\* with the whole effect of its saveEpisode, and it does settle.
UnmountedStartsNoWrite ==
  /\ [][/\ ~editor.mounted => Len(editor'.inFlight) <= Len(editor.inFlight)
        /\ (~editor.mounted /\ last' # last /\ last'.op = "func") =>
             (~last'.began /\ episodes' = episodes /\ snapshots' = snapshots)
        /\ (editor.mounted /\ ~editor'.mounted) =>
             /\ editor'.inFlight = editor.inFlight
             /\ episodes' = episodes /\ snapshots' = snapshots
        /\ Len(editor'.inFlight) < Len(editor.inFlight) =>
             /\ episodes' = saveEpisode(Head(editor.inFlight), "none").episodes
             /\ snapshots' = saveEpisode(Head(editor.inFlight), "none").snapshots]_vars
  /\ ((editor.inFlight # <<>>) ~> (editor.inFlight = <<>>))

\* a timer that was pending at the unmount has fired and func has returned
\* at once, while a write that began before the unmount is still under way
TimerFiredAfterUnmount ==
  /\ ~editor.mounted
  /\ last.op = "func" /\ ~last.began
  /\ editor.inFlight # <<>>

\* C29: every episode the auto-save writes to the store is one for which
\* the editor's validateEpisode reports no error, as SAVE EPISODE demands.
AutoSaveRespectsValidation ==
  [][Len(editor'.inFlight) < Len(editor.inFlight) =>
       (Gate(Head(editor.inFlight)) \/ (episodes' = episodes /\ snapshots' = snapshots))]_vars

----
(* Claims on the campaign episode manager *)

Dense(list) == \A i \in 1..Len(list) : list[i].order = Num(i)

\* the entries but for their order numbers
Unordered(list) == [i \in 1..Len(list) |-> [list[i] EXCEPT !.order = Num(0)]]

AtBoundary(list, index, direction) ==
  (direction = "up" /\ index = 0) \/ (direction = "down" /\ index = Len(list) - 1)

----
(* Claims on calls that race *)

\* C24: of a saveEpisode(e) and a deleteEpisode(e.id) whose transactions run
\* one after the other, the delete running last leaves neither the record
\* nor any snapshot of the episode, and the save running last leaves the
\* record as saved together with the auto-save snapshot of this save and no
\* other snapshot of the episode.
SaveDeleteRace ==
  [][/\ (/\ last.op = "saveEpisode" /\ last'.op = "deleteEpisode"
         /\ last'.result = "resolved" /\ last'.id = last.id) =>
          /\ last'.id \notin DOMAIN episodes'
          /\ \A k \in DOMAIN snapshots' : snapshots'[k].episodeId # last'.id
     /\ (/\ last.op = "deleteEpisode" /\ last.result = "resolved"
         /\ last'.op = "saveEpisode" /\ last'.id = last.id) =>
          /\ last'.id \in DOMAIN episodes'
          /\ \E e \in CascadeSaveInputs :
               episodes'[last'.id] = [e EXCEPT !.lastModified = now]
          /\ {k \in DOMAIN snapshots' : snapshots'[k].episodeId = last'.id}
               = {SnapshotId(last'.id, now)}
          /\ snapshots'[SnapshotId(last'.id, now)].type = "auto-save"
          /\ snapshots'[SnapshotId(last'.id, now)].data = JSONstringify(episodes'[last'.id])]_vars

\* the delete ran after a save of e1 and took its snapshots with it
DeleteRanLast ==
  /\ last.op = "deleteEpisode" /\ last.id = "e1" /\ last.removed > 0
  /\ "e1" \notin DOMAIN episodes
  /\ \A k \in DOMAIN snapshots : snapshots[k].episodeId # "e1"

\* C27: every stored snapshot's episodeId is the id of a stored episode
\* record, whatever the interleaving of saveEpisode, createManualSnapshot,
\* restoreEpisodeFromSnapshot and deleteEpisode.
NoOrphanSnapshots ==
  \A k \in DOMAIN snapshots : snapshots[k].episodeId \in DOMAIN episodes

\* C28: whenever saveEpisode has resolved with the episode id, the
\* transaction that wrote the episode has committed: the record stored
\* under the id is the saved content, stamped with the time of the save.
ReportedSaveIsDurable ==
  [][(last'.op = "saveEpisode" /\ last'.result = "resolved" /\ last' # last) =>
       /\ last'.id \in DOMAIN episodes'
       /\ episodes'[last'.id] = [last'.input EXCEPT !.lastModified = now]]_vars

----
(* Claims on the scene builder *)

\* C30: every scene of the builder carries as its id the key it is stored
\* under, so the ids of the scenes are unique within the episode.
SceneKeyIsSceneId ==
  \A i \in 1..Len(scenes) : scenes[i].scene.id = scenes[i].key

----
(* Claims on refused calls *)

\* what makes an import fail before it saves: the text is no JSON, or the
\* validator reports a finding
ImportCause(parsed, findings) == IF parsed.threw THEN <<"SyntaxError">> ELSE findings

\* C15: importEpisodeFromJSON and importCampaignFromJSON, handed a text
\* that is no JSON or a record that fails the structural validation, are
\* rejected with the cause as their error and leave the episodes, the
\* campaigns and the snapshots as they were.
RefusedImportChangesNothing ==
  [][/\ \A t \in ImportInputs :
          LET cause == ImportCause(JSONparse(t), validateEpisode(JSONparse(t).value))
          IN (/\ cause # <<>>
              /\ ImportEpisodeFromJSON(t, "none")
              /\ last' = Settled("importEpisodeFromJSON", importEpisodeFromJSON(t, "none"), NoEpisode))
               => /\ last'.result = "rejected"
                  /\ last'.errors = cause
                  /\ episodes' = episodes /\ campaigns' = campaigns /\ snapshots' = snapshots
     /\ \A t \in CampaignImportInputs :
          LET cause == ImportCause(JSONparse(t), validateCampaign(JSONparse(t).value))
          IN (/\ cause # <<>>
              /\ ImportCampaignFromJSON(t, "none")
              /\ last' = SettledCampaign("importCampaignFromJSON",
                                         importCampaignFromJSON(t, "none"), NoCampaign))
               => /\ last'.result = "rejected"
                  /\ last'.errors = cause
                  /\ episodes' = episodes /\ campaigns' = campaigns /\ snapshots' = snapshots]_vars

\* an import of a text that is no JSON was rejected on stores that hold an
\* episode, its snapshot and a campaign
MalformedImportRefused ==
  /\ last.op = "importEpisodeFromJSON"
  /\ last.result = "rejected"
  /\ last.errors = <<"SyntaxError">>
  /\ DOMAIN episodes = {"e1"}
  /\ snapshots # EmptyStore
  /\ campaigns # EmptyStore

\* C16: deleteEpisode and deleteCampaign of an id that keys no record, and
\* restoreEpisodeFromSnapshot of an id that keys no snapshot, are rejected
\* with an error and leave every collection as it was.
UnknownIdIsRejected ==
  [][/\ \A id \in EpisodeIds :
          (/\ id \notin DOMAIN episodes
           /\ DeleteEpisode(id, "none")
           /\ last' = Settled("deleteEpisode", deleteEpisode(id, "none"), NoEpisode))
            => /\ last'.result = "rejected" /\ last'.errors # <<>>
               /\ episodes' = episodes /\ campaigns' = campaigns /\ snapshots' = snapshots
     /\ \A id \in {"c1", "c2"} :
          (/\ id \notin DOMAIN campaigns
           /\ DeleteCampaign(id, "none")
           /\ last' = SettledCampaign("deleteCampaign", deleteCampaign(id, "none"), NoCampaign))
            => /\ last'.result = "rejected" /\ last'.errors # <<>>
               /\ episodes' = episodes /\ campaigns' = campaigns /\ snapshots' = snapshots
     /\ \A s \in {UnknownSnapshot} :
          (/\ s \notin DOMAIN snapshots
           /\ RestoreEpisodeFromSnapshot(s, "none")
           /\ last' = Settled("restoreEpisodeFromSnapshot", restoreEpisodeFromSnapshot(s, "none"), NoEpisode))
            => /\ last'.result = "rejected" /\ last'.errors # <<>>
               /\ episodes' = episodes /\ campaigns' = campaigns /\ snapshots' = snapshots]_vars

====
